---------------------------- MODULE Spec2Model ----------------------------
(***************************************************************************)
(* A model of yahap, a single-pass HTML tokenizer: the tag/attribute       *)
(* heuristics table (html_heuristics.rs), the buffer string assembler      *)
(* (dynamic_string.rs), the chunk model with its markup regeneration       *)
(* (html_chunk.rs) and the parser facade (html_parser.rs).                 *)
(*                                                                         *)
(* Characters are modelled by their code points (integers) and strings by  *)
(* sequences of code points, so that lower/upper-casing, trimming, byte    *)
(* lengths and numeric character references are computed, not assumed.     *)
(* A panic (an unwrap of None, an index out of bounds) is an outcome of    *)
(* its own: the state keeps what was written before it and ret = "panic".  *)
(***************************************************************************)
EXTENDS Integers, Sequences, FiniteSets, TLC

VARIABLES
    \* HtmlHeuristics (html_heuristics.rs:32-58)
    chars, strings, tag_data, added_tags,
    attributes, attr_data, added_attributes, attrs,
    \* DynamicString (dynamic_string.rs:8-17).  buffer holds the bytes of
    \* buffer[0..buffer_pos]: the bytes from buffer_pos on are never read.
    text, buffer, buffer_pos, length, enc,
    \* the history of the string: whether clear has been called, and the
    \* characters handed to append since the last clear (or since new)
    appended,
    \* HtmlChunk (html_chunk.rs:42-106).  params is the Option<HashMap>:
    \* [some, map].
    chunk_type, hash_mode, html, chunk_offset, chunk_length, tag,
    closure, end_closure, comments, entities, lt_entity,
    params, params_count, param_names, param_values, param_chars,
    \* HtmlParser (html_parser.rs:62-69): the buffer and the scan cursor;
    \* returned is the list of the spans of the chunks handed out so far
    html_bytes, current_position, data_length, returned,
    \* the parser HtmlParser::new has returned in this run, as an Option:
    \* [some |-> FALSE] while no call of new has returned
    constructed,
    \* the last call made on the object under study, what it returned
    \* (ret: "true", "false", "ok" or "panic"; out: a returned string) and
    \* the number of calls made
    op, ret, out, steps

heurVars == <<chars, strings, tag_data, added_tags,
              attributes, attr_data, added_attributes, attrs>>

strVars == <<text, buffer, buffer_pos, length, enc, appended>>

chunkVars == <<chunk_type, hash_mode, html, chunk_offset, chunk_length, tag,
               closure, end_closure, comments, entities, lt_entity,
               params, params_count, param_names, param_values, param_chars>>

parserVars == <<html_bytes, current_position, data_length, returned, constructed>>

vars == <<heurVars, strVars, chunkVars, parserVars, op, ret, out, steps>>

(***************************************************************************)
(* Characters and strings                                                  *)
(***************************************************************************)

\* Named code points used below.
CH == [tab |-> 9, lf |-> 10, cr |-> 13, sp |-> 32, excl |-> 33, dquote |-> 34,
       hash |-> 35, amp |-> 38, squote |-> 39, comma |-> 44, dash |-> 45,
       slash |-> 47, semi |-> 59, lt |-> 60, eq |-> 61, gt |-> 62,
       lbr |-> 91, rbr |-> 93, A |-> 65, B |-> 66, a |-> 97, b |-> 98,
       c |-> 99, d |-> 100, x |-> 120, y |-> 121, eacute |-> 233]

\* char::to_lowercase / to_uppercase on the code points the model uses
\* (ASCII letters; e-acute and E-acute are each other's case forms).
ToLowerCh(ch) ==
    IF ch \in 65..90 THEN ch + 32 ELSE IF ch = 201 THEN 233 ELSE ch

ToUpperCh(ch) ==
    IF ch \in 97..122 THEN ch - 32 ELSE IF ch = 233 THEN 201 ELSE ch

to_lowercase(s) == [i \in 1..Len(s) |-> ToLowerCh(s[i])]

to_uppercase(s) == [i \in 1..Len(s) |-> ToUpperCh(s[i])]

\* char::is_whitespace, as used by str::trim
IsWhite(ch) == ch \in {9, 10, 11, 12, 13, 32}

RECURSIVE TrimStart(_)
TrimStart(s) ==
    IF s # <<>> /\ IsWhite(Head(s)) THEN TrimStart(Tail(s)) ELSE s

RECURSIVE TrimEnd(_)
TrimEnd(s) ==
    IF s # <<>> /\ IsWhite(s[Len(s)])
    THEN TrimEnd(SubSeq(s, 1, Len(s) - 1))
    ELSE s

trim(s) == TrimEnd(TrimStart(s))

\* The number of bytes of a code point in UTF-8 (String::len counts bytes).
Utf8Len(ch) ==
    IF ch <= 127 THEN 1 ELSE IF ch <= 2047 THEN 2 ELSE IF ch <= 65535 THEN 3 ELSE 4

RECURSIVE ByteLen(_)
ByteLen(s) == IF s = <<>> THEN 0 ELSE Utf8Len(Head(s)) + ByteLen(Tail(s))

\* str::split on a separator character
RECURSIVE SplitAt(_, _, _)
SplitAt(s, sep, cur) ==
    IF s = <<>> THEN <<cur>>
    ELSE IF Head(s) = sep THEN <<cur>> \o SplitAt(Tail(s), sep, <<>>)
    ELSE SplitAt(Tail(s), sep, Append(cur, Head(s)))

split(s, sep) == SplitAt(s, sep, <<>>)

\* Iterator::nth(n) on a Chars iterator that has already yielded `pos`
\* characters of s: it skips n characters and yields the next, or None when
\* the string ends first; either way the skipped characters are consumed.
\* -> [some, val, pos]: some is FALSE for None.
IterNth(s, pos, n) ==
    IF pos + n + 1 <= Len(s)
    THEN [some |-> TRUE, val |-> s[pos + n + 1], pos |-> pos + n + 1]
    ELSE [some |-> FALSE, val |-> 0, pos |-> Len(s)]

\* A map held sparsely: the keys it has a value for.
Put(f, k, v) == [z \in (DOMAIN f) \cup {k} |-> IF z = k THEN v ELSE f[z]]

EmptyMap == [z \in {} |-> 0]

(***************************************************************************)
(* HtmlHeuristics                                                          *)
(***************************************************************************)

\* The table as one value, for the operators that update it step by step.
\* chars, attr_data rows: entries not held are 0.  strings, attrs: entries
\* not held are None.  tag_data, attributes: entries not held are empty.
Table == [chars |-> chars, strings |-> strings, tag_data |-> tag_data,
          added_tags |-> added_tags, attributes |-> attributes,
          attr_data |-> attr_data, added_attributes |-> added_attributes,
          attrs |-> attrs]

\* HtmlHeuristics::new
NewTable == [chars |-> EmptyMap, strings |-> EmptyMap, tag_data |-> EmptyMap,
             added_tags |-> EmptyMap, attributes |-> EmptyMap,
             attr_data |-> EmptyMap, added_attributes |-> EmptyMap,
             attrs |-> EmptyMap]

\* self.chars[i][j]
CharsAt(T, i, j) == IF <<i, j>> \in DOMAIN T.chars THEN T.chars[<<i, j>>] ELSE 0

\* self.attr_data[id][b], for a row that has been allocated
AttrDataAt(T, id, b) ==
    IF b \in DOMAIN T.attr_data[id] THEN T.attr_data[id][b] ELSE 0

get_string_by_id(T, id) ==
    IF (id \div 2) \in DOMAIN T.strings THEN T.strings[id \div 2] ELSE <<>>

get_string_data(T, id) ==
    IF id \in DOMAIN T.tag_data THEN T.tag_data[id] ELSE <<>>

match_tag(T, ch1, ch2) == CharsAt(T, ch1, ch1)

\* The row of a tag that was never allocated is an empty Vec: indexing it
\* is out of bounds.
match_attr_panics(T, ch, tag_id) == (tag_id \div 2) \notin DOMAIN T.attr_data

match_attr(T, ch, tag_id) ==
    IF match_attr_panics(T, ch, tag_id) THEN 0 ELSE AttrDataAt(T, tag_id \div 2, ch)

get_attr_data(T, attr_id) ==
    IF attr_id \in DOMAIN T.attributes THEN T.attributes[attr_id] ELSE <<>>

get_attr(T, attr_id) ==
    IF (attr_id \div 2) \in DOMAIN T.attrs THEN T.attrs[attr_id \div 2] ELSE <<>>

\* -> [table, ret]: ret is "true" when the entry was free and is now set
set_hash(T, ch1, ch2, id) ==
    IF CharsAt(T, ch1, ch2) # 0
    THEN [table |-> T, ret |-> "false"]
    ELSE [table |-> [T EXCEPT !.chars = Put(@, <<ch1, ch2>>, id)], ret |-> "true"]

\* The five terminator entries of a one-character name, stopping at the
\* first one that is taken.
RECURSIVE SetHashEach(_, _, _, _)
SetHashEach(T, ch1, seconds, id) ==
    IF seconds = <<>> THEN [table |-> T, ret |-> "true"]
    ELSE LET r == set_hash(T, ch1, Head(seconds), id)
         IN  IF r.ret = "true" THEN SetHashEach(r.table, ch1, Tail(seconds), id) ELSE r

\* -> [table, ret]: ret is "true", "false" or "panic"
add_tag_internal(T, tg, tag_id, data_id) ==
    IF ByteLen(tg) = 0 THEN [table |-> T, ret |-> "false"]
    ELSE
    LET T1 == [T EXCEPT !.tag_data = Put(@, data_id, get_string_data(T, data_id) \o tg)]
        n1 == IterNth(tg, 0, 1)            \* tag_chars.nth(1)
        first_ch == n1.val
    IN  IF ~n1.some THEN [table |-> T1, ret |-> "panic"]
        ELSE IF ByteLen(tg) = 1
        THEN SetHashEach(T1, first_ch,
                         <<CH.sp, CH.tab, CH.cr, CH.lf, CH.gt>>, -1 * data_id)
        ELSE LET n2 == IterNth(tg, n1.pos, 1)   \* tag_chars.nth(1), again
             IN  IF ~n2.some THEN [table |-> T1, ret |-> "panic"]
                 ELSE set_hash(T1, first_ch, n2.val, data_id)

add_attribute(T, attr, id, attr_id) ==
    IF ByteLen(attr) = 0 THEN T
    ELSE LET b == attr[1] % 256
         IN  [T EXCEPT !.attributes = Put(@, attr_id, attr),
                       !.attr_data[id] = Put(@, b, attr_id % 256)]

\* The loop over the comma-separated attribute names of add_tag.
RECURSIVE AddAttrNames(_, _, _)
AddAttrNames(T, id, names) ==
    IF names = <<>> THEN T
    ELSE
    LET att_name == trim(Head(names)) IN
    IF Len(att_name) = 0 THEN AddAttrNames(T, id, Tail(names))
    ELSE
    LET first_ch == att_name[1] IN
    IF AttrDataAt(T, id, first_ch) > 0 \/ AttrDataAt(T, id, ToUpperCh(first_ch)) > 0
    THEN AddAttrNames(T, id, Tail(names))
    ELSE
    LET known   == att_name \in DOMAIN T.added_attributes
        new_id  == Cardinality(DOMAIN T.added_attributes) + 1
        attr_id == IF known THEN T.added_attributes[att_name] ELSE new_id
        T1 == IF known THEN T
              ELSE [T EXCEPT !.added_attributes = Put(@, att_name, new_id),
                             !.attrs = Put(@, new_id, att_name)]
        T2 == add_attribute(T1, att_name, id, attr_id * 2 + 0)
        T3 == add_attribute(T2, to_uppercase(att_name), id, attr_id * 2 + 1)
    IN  AddAttrNames(T3, id, Tail(names))

\* The name add_tag works with.
TagOf(tag_name) == trim(to_lowercase(tag_name))

\* Mutant of AlreadyAdded: the duplicate check dropped.
AlreadyAdded_Dropped(T, tg) == FALSE

AlreadyAdded(T, tg) == tg \in DOMAIN T.added_tags

\* Mutant of TableFull: the capacity test off by one.
TableFull_OffByOne(T) == Cardinality(DOMAIN T.added_tags) > 255

TableFull(T) == Cardinality(DOMAIN T.added_tags) >= 255

\* -> [table, ret]: ret is "true", "false" or "panic"
add_tag(T, tag_name, attr_names) ==
    LET tg == TagOf(tag_name) IN
    IF ByteLen(tg) = 0 \/ ByteLen(tg) > 32 \/ AlreadyAdded(T, tg)
    THEN [table |-> T, ret |-> "false"]
    ELSE IF TableFull(T) THEN [table |-> T, ret |-> "false"]
    ELSE
    LET id == Cardinality(DOMAIN T.added_tags) + 1
        T1 == [T EXCEPT !.added_tags = Put(@, tg, id),
                        !.strings = Put(@, id, tg)]
        lo == add_tag_internal(T1, tg, id, id * 2 + 0)
    IN  IF lo.ret # "true" THEN [table |-> lo.table, ret |-> lo.ret]
        ELSE
        LET up == add_tag_internal(lo.table, to_uppercase(tg), id, id * 2 + 1)
        IN  IF up.ret # "true" THEN [table |-> up.table, ret |-> up.ret]
            ELSE
            LET T2 == [up.table EXCEPT !.attr_data = Put(@, id, EmptyMap)]
                names == split(to_lowercase(attr_names), CH.comma)
            IN  [table |-> AddAttrNames(T2, id, names), ret |-> "true"]


(***************************************************************************)
(* The heuristics table under registration calls                           *)
(***************************************************************************)

\* The number of add_tag calls of a run.
MaxCalls == 2

Repeat(ch, n) == [i \in 1..n |-> ch]

\* The names handed to add_tag, one for each way through add_tag and
\* add_tag_internal.
TagNameInputs ==
    { <<>>,                                   \* ""       empty
      <<CH.sp, CH.tab>>,                      \* " \t"    empty once trimmed
      <<CH.a>>,                               \* "a"      one character
      <<CH.a, CH.b>>,                         \* "ab"     two characters
      <<CH.a, CH.b, CH.b>>,                   \* "abb"    three characters
      <<CH.a, CH.b, CH.a, CH.a>>,             \* "abaa"
      <<CH.A, CH.B, CH.A, CH.A>>,             \* "ABAA"   "abaa" in upper case
      <<CH.sp, CH.a, CH.b, CH.a, CH.a, CH.tab>>, \* " abaa\t" "abaa" padded
      <<CH.a, CH.b, CH.b, CH.b>>,             \* "abbb"   shares "ab" with "abaa"
      <<CH.b, CH.b, CH.a, CH.b>>,             \* "bbab"   2nd, 4th byte as "abbb"
      <<CH.a, CH.a, CH.a, CH.a>>,             \* "aaaa"
      <<CH.b, CH.a, CH.a, CH.a>>,             \* "baaa"   2nd, 4th byte as "aaaa"
      <<CH.a, 49, CH.b, 50>>,                 \* "a1b2"   2nd, 4th byte caseless
      <<CH.a, CH.b, CH.a, CH.a, CH.b>>,       \* "abaab"  five characters
      Repeat(CH.a, 33) }                      \* 33 bytes

\* The attribute lists handed to add_tag: "" and "x,,Y, xa".
AttrListInputs ==
    { <<>>,
      <<CH.x, CH.comma, CH.comma, 89, CH.comma, CH.sp, CH.x, CH.a>> }

NoOp == [name |-> "new", a |-> <<>>, b |-> <<>>]

\* The state of a DynamicString::new("".to_string()), as HtmlParser::new
\* makes it.
NewString ==
    /\ text = <<>>
    /\ length = 0
    /\ enc = "utf8"
    /\ buffer_pos = 0
    /\ buffer = <<>>
    /\ appended = [cleared |-> FALSE, chars |-> <<>>]

\* HtmlChunk::new(hm)
NewChunk(hm) ==
    /\ hash_mode = hm
    /\ chunk_type = "Text"
    /\ html = <<>>
    /\ chunk_offset = 0
    /\ chunk_length = 0
    /\ tag = <<>>
    /\ closure = FALSE
    /\ end_closure = FALSE
    /\ comments = FALSE
    /\ entities = FALSE
    /\ lt_entity = FALSE
    /\ params = [some |-> hm, map |-> EmptyMap]
    /\ params_count = 0
    /\ param_names = <<>>
    /\ param_chars = <<>>
    /\ param_values = <<>>

\* The buffer and cursor of HtmlParser::new: no buffer assigned.
NewParser ==
    /\ html_bytes = <<>>
    /\ current_position = 0
    /\ data_length = 0
    /\ returned = <<>>

NoCall ==
    /\ op = NoOp
    /\ ret = "none"
    /\ out = <<>>
    /\ steps = 0
    /\ constructed = [some |-> FALSE]

InitHeuristics ==
    /\ NewString
    /\ NewChunk(FALSE)
    /\ NewParser
    /\ chars = NewTable.chars
    /\ strings = NewTable.strings
    /\ tag_data = NewTable.tag_data
    /\ added_tags = NewTable.added_tags
    /\ attributes = NewTable.attributes
    /\ attr_data = NewTable.attr_data
    /\ added_attributes = NewTable.added_attributes
    /\ attrs = NewTable.attrs
    /\ NoCall

SetTable(T) ==
    /\ chars' = T.chars
    /\ strings' = T.strings
    /\ tag_data' = T.tag_data
    /\ added_tags' = T.added_tags
    /\ attributes' = T.attributes
    /\ attr_data' = T.attr_data
    /\ added_attributes' = T.added_attributes
    /\ attrs' = T.attrs

\* One call of add_tag.  A panic ends the run.
AddTagCall(tag_name, attr_names) ==
    /\ ret # "panic"
    /\ LET r == add_tag(Table, tag_name, attr_names)
       IN  /\ SetTable(r.table)
           /\ ret' = r.ret
    /\ op' = [name |-> "add_tag", a |-> tag_name, b |-> attr_names]
    /\ UNCHANGED <<strVars, chunkVars, parserVars, out>>

AddTag ==
    /\ steps < MaxCalls
    /\ \E tag_name \in TagNameInputs, attr_names \in AttrListInputs :
           AddTagCall(tag_name, attr_names)
    /\ steps' = steps + 1

NextHeuristics == AddTag

SpecHeuristics == InitHeuristics /\ [][NextHeuristics]_vars

\* A name whose registration ran to its end: add_tag allocates the
\* attribute row of its id on the path that returns true, and nowhere else.
Registered(T, tg) ==
    /\ tg \in DOMAIN T.added_tags
    /\ T.added_tags[tg] \in DOMAIN T.attr_data

NumTags == Cardinality(DOMAIN added_tags)

(***************************************************************************)
(* The table filled to its capacity                                        *)
(***************************************************************************)

\* The k-th of 255 distinct four-letter names over a..p whose second and
\* fourth letters differ from name to name.
FillName(k) == <<CH.a + (k % 16), CH.a + (k \div 16), CH.a + (k % 16), CH.a + (k % 16)>>

\* Names of five letters, none of them a FillName: "aaaaa", "babab",
\* "ABABA" and " bbbbb".
ProbeNames ==
    { Repeat(CH.a, 5),
      <<CH.b, CH.a, CH.b, CH.a, CH.b>>,
      <<CH.A, CH.B, CH.A, CH.B, CH.A>>,
      <<CH.sp>> \o Repeat(CH.b, 5) }

\* Registers the next name of the fill, until 255 names are held.
FillTag ==
    /\ NumTags < 255
    /\ AddTagCall(FillName(NumTags), <<CH.x, CH.comma, 89>>)   \* "x,Y"
    /\ UNCHANGED steps

\* A further registration against the full table.
ProbeTag ==
    /\ NumTags >= 255
    /\ steps < MaxCalls
    /\ \E tag_name \in ProbeNames, attr_names \in AttrListInputs :
           AddTagCall(tag_name, attr_names)
    /\ steps' = steps + 1

NextCapacity == FillTag \/ ProbeTag

SpecCapacity == InitHeuristics /\ [][NextCapacity]_vars

(***************************************************************************)
(* Claims on the heuristics table                                          *)
(***************************************************************************)

\* C1: for every registered tag name t of at least two bytes, match_tag on
\* the first two bytes of t in lower case and in upper case both return a
\* nonzero id, and get_string_by_id of either id is t.
C1_CaseInsensitiveMatch ==
    \A t \in DOMAIN added_tags :
        (Registered(Table, t) /\ Len(t) >= 2) =>
            LET lo == match_tag(Table, t[1], t[2])
                up == match_tag(Table, ToUpperCh(t[1]), ToUpperCh(t[2]))
            IN  /\ lo # 0
                /\ up # 0
                /\ get_string_by_id(Table, lo) = t
                /\ get_string_by_id(Table, up) = t

\* C2: add_tag of a name that, lower-cased and trimmed, is already
\* registered returns failure and changes nothing in the table, whatever
\* attribute list the call carries.
C2_ReRegistrationIsNoOp ==
    [][ (op'.name = "add_tag" /\ steps' # steps
            /\ TagOf(op'.a) \in DOMAIN added_tags)
        => (ret' = "false" /\ UNCHANGED heurVars) ]_vars

\* C2 witness: a call was rejected for a name whose own registration had run
\* to its end before, and the call carried attributes.
C2_Witness ==
    /\ op.name = "add_tag"
    /\ ret = "false"
    /\ Registered(Table, TagOf(op.a))
    /\ op.b # <<>>
    /\ op.a # TagOf(op.a)

\* C3: with 255 names registered, add_tag of a further distinct name returns
\* failure, and match_tag and get_string_by_id answer for each of the 255
\* names as they did before the call.
C3_CapacityBound ==
    [][ (NumTags >= 255 /\ op'.name = "add_tag" /\ steps' # steps
            /\ TagOf(op'.a) \notin DOMAIN added_tags)
        => /\ ret' = "false"
           /\ NumTags' = 255
           /\ \A t \in DOMAIN added_tags :
                /\ match_tag(Table', t[1], t[2]) = match_tag(Table, t[1], t[2])
                /\ match_tag(Table', ToUpperCh(t[1]), ToUpperCh(t[2]))
                       = match_tag(Table, ToUpperCh(t[1]), ToUpperCh(t[2]))
                /\ \A id \in {2 * added_tags[t], 2 * added_tags[t] + 1} :
                       get_string_by_id(Table', id) = get_string_by_id(Table, id)
                /\ CharsAt(Table', t[2], t[4]) = CharsAt(Table, t[2], t[4]) ]_vars

\* C3 witness: the table holds 255 names and the last call, for a name that
\* add_tag would otherwise accept, was rejected.
C3_Witness ==
    /\ NumTags = 255
    /\ op.name = "add_tag"
    /\ ret = "false"
    /\ TagOf(op.a) \notin DOMAIN added_tags
    /\ ByteLen(TagOf(op.a)) \in 1..32

\* C4 (first half): an entry of the byte-pair table, once nonzero, never
\* changes, so a nonzero answer of match_tag stays the same.
C4_AppendOnly ==
    [][ \A k \in DOMAIN chars :
            /\ k \in DOMAIN chars'
            /\ chars'[k] = chars[k]
            /\ match_tag(Table, k[1], k[1]) # 0
                 => match_tag(Table', k[1], k[1]) = match_tag(Table, k[1], k[1]) ]_vars

\* C4: once nonzero, an answer of match_tag stays the same; and when A and
\* then B, sharing their first two bytes, are registered in that order,
\* match_tag on those two bytes resolves to A.
C4_FirstRegisteredWins ==
    \A A \in DOMAIN added_tags, B \in DOMAIN added_tags :
        ( /\ Registered(Table, A)
          /\ added_tags[A] < added_tags[B]
          /\ Len(A) >= 2 /\ Len(B) >= 2
          /\ SubSeq(A, 1, 2) = SubSeq(B, 1, 2) )
        => /\ match_tag(Table, A[1], A[2]) # 0
           /\ get_string_by_id(Table, match_tag(Table, A[1], A[2])) = A

(***************************************************************************)
(* DynamicString                                                           *)
(***************************************************************************)

\* The capacity of the scratch buffer.  The source sets 1024*256-1; the
\* model scales it down so that a run can fill the buffer.
TEXT_CAPACITY == 7

\* The length of the scratch array, [u8; TEXT_CAPACITY+1].
BufferLen == TEXT_CAPACITY + 1

\* Encoding::encode_to of one character under EncoderTrap::Ignore: the
\* bytes of the character, or nothing when the codec cannot represent it.
Encode(e, ch) ==
    IF e = "ascii" THEN (IF ch <= 127 THEN <<ch>> ELSE <<>>)
    ELSE IF ch <= 127 THEN <<ch>>
    ELSE IF ch <= 2047 THEN <<192 + (ch \div 64), 128 + (ch % 64)>>
    ELSE <<224 + (ch \div 4096), 128 + ((ch \div 64) % 64), 128 + (ch % 64)>>

IsCont(b) == b \in 128..191

\* Encoding::decode under DecoderTrap::Ignore: a byte that starts no valid
\* sequence is skipped.
RECURSIVE Decode(_, _)
Decode(e, bytes) ==
    IF bytes = <<>> THEN <<>>
    ELSE
    LET b1 == bytes[1] IN
    IF b1 <= 127 THEN <<b1>> \o Decode(e, Tail(bytes))
    ELSE IF e = "ascii" THEN Decode(e, Tail(bytes))
    ELSE IF b1 \in 194..223 /\ Len(bytes) >= 2 /\ IsCont(bytes[2])
    THEN <<(b1 - 192) * 64 + (bytes[2] - 128)>> \o Decode(e, SubSeq(bytes, 3, Len(bytes)))
    ELSE IF b1 \in 224..239 /\ Len(bytes) >= 3 /\ IsCont(bytes[2]) /\ IsCont(bytes[3])
    THEN <<(b1 - 224) * 4096 + (bytes[2] - 128) * 64 + (bytes[3] - 128)>>
            \o Decode(e, SubSeq(bytes, 4, Len(bytes)))
    ELSE Decode(e, Tail(bytes))

\* The string as one value.
Str == [text |-> text, buffer |-> buffer, buffer_pos |-> buffer_pos,
        length |-> length, enc |-> enc]

\* self.buffer[self.buffer_pos] = b; self.buffer_pos += 1, for each byte in
\* turn.  Indexing the array at BufferLen or beyond is out of bounds.
\* -> [str, ret]
RECURSIVE WriteBytes(_, _)
WriteBytes(S, bytes) ==
    IF bytes = <<>> THEN [str |-> S, ret |-> "ok"]
    ELSE IF S.buffer_pos >= BufferLen THEN [str |-> S, ret |-> "panic"]
    ELSE WriteBytes([S EXCEPT !.buffer = Append(SubSeq(@, 1, S.buffer_pos), Head(bytes)),
                              !.buffer_pos = @ + 1],
                    Tail(bytes))

\* `ch as u8 <= 127`: the cast keeps the low 8 bits of the code point.
IsByteRange(ch) == (ch % 256) <= 127

\* -> [str, ret]
append(S, ch) ==
    IF IsByteRange(ch) THEN WriteBytes(S, <<ch % 256>>)
    ELSE LET bytes == Encode(S.enc, ch)
         IN  \* bytes.len() == 1 || bytes[0] == '?': bytes[0] of no bytes
             IF Len(bytes) # 1 /\ Len(bytes) = 0 THEN [str |-> S, ret |-> "panic"]
             ELSE WriteBytes(S, bytes)

\* The flush with the codec `e`: set_to_string (e = self.enc) and
\* set_to_string_ascii (e = ASCII).
FlushWith(S, e) ==
    IF S.buffer_pos > 0
    THEN LET decoded == Decode(e, SubSeq(S.buffer, 1, S.buffer_pos))
         IN  [S EXCEPT !.text = IF ByteLen(S.text) = 0 THEN decoded ELSE S.text \o decoded,
                       !.length = @ + S.buffer_pos,
                       !.buffer_pos = 0,
                       !.buffer = <<>>]
    ELSE S

set_to_string(S) == FlushWith(S, S.enc)

set_to_string_ascii(S) == FlushWith(S, "ascii")

clear(S) == [S EXCEPT !.text = <<>>, !.length = 0, !.buffer_pos = 0, !.buffer = <<>>]

set_encoding(S, encoding) == [S EXCEPT !.enc = encoding]

(***************************************************************************)
(* The string assembler under append, flush, clear and set_encoding        *)
(***************************************************************************)

\* The number of calls of a run.
MaxStringOps == 4

\* The characters appended: 'a', e-acute (two bytes in UTF-8), U+0100 (low
\* byte 0) and the euro sign (three bytes in UTF-8).
CharInputs == {CH.a, CH.eacute, 256, 8364}

SetStr(S) ==
    /\ text' = S.text
    /\ buffer' = S.buffer
    /\ buffer_pos' = S.buffer_pos
    /\ length' = S.length
    /\ enc' = S.enc

StringStep ==
    /\ steps < MaxStringOps
    /\ ret # "panic"
    /\ steps' = steps + 1
    /\ UNCHANGED <<heurVars, chunkVars, parserVars>>

AppendChar ==
    /\ StringStep
    /\ \E ch \in CharInputs :
          LET r == append(Str, ch)
          IN  /\ SetStr(r.str)
              /\ ret' = r.ret
              /\ op' = [name |-> "append", a |-> <<ch>>, b |-> <<>>]
              /\ appended' = [appended EXCEPT !.chars = Append(@, ch)]
    /\ UNCHANGED out

SetToString ==
    /\ StringStep
    /\ SetStr(set_to_string(Str))
    /\ out' = text'
    /\ UNCHANGED appended
    /\ ret' = "ok"
    /\ op' = [name |-> "set_to_string", a |-> <<>>, b |-> <<>>]

SetToStringAscii ==
    /\ StringStep
    /\ SetStr(set_to_string_ascii(Str))
    /\ out' = text'
    /\ UNCHANGED appended
    /\ ret' = "ok"
    /\ op' = [name |-> "set_to_string_ascii", a |-> <<>>, b |-> <<>>]

Clear ==
    /\ StringStep
    /\ SetStr(clear(Str))
    /\ appended' = [cleared |-> TRUE, chars |-> <<>>]
    /\ ret' = "ok"
    /\ op' = [name |-> "clear", a |-> <<>>, b |-> <<>>]
    /\ UNCHANGED out

SetEncoding ==
    /\ StringStep
    /\ \E encoding \in {"utf8", "ascii"} :
          /\ SetStr(set_encoding(Str, encoding))
          /\ UNCHANGED appended
          /\ op' = [name |-> "set_encoding", a |-> <<>>, b |-> <<>>]
    /\ ret' = "ok"
    /\ UNCHANGED out

NextString == AppendChar \/ SetToString \/ SetToStringAscii \/ Clear \/ SetEncoding

IdleHeuristics ==
    /\ chars = NewTable.chars
    /\ strings = NewTable.strings
    /\ tag_data = NewTable.tag_data
    /\ added_tags = NewTable.added_tags
    /\ attributes = NewTable.attributes
    /\ attr_data = NewTable.attr_data
    /\ added_attributes = NewTable.added_attributes
    /\ attrs = NewTable.attrs

InitString == IdleHeuristics /\ NewChunk(FALSE) /\ NewParser /\ NewString /\ NoCall

SpecString == InitString /\ [][NextString]_vars

\* A string whose scratch buffer lacks two bytes of being full: the state
\* after new, or after a clear, and BufferLen - 2 appends of 'a'.
InitStringNearFull ==
    /\ IdleHeuristics
    /\ NewChunk(FALSE)
    /\ NewParser
    /\ NoCall
    /\ text = <<>>
    /\ length = 0
    /\ enc = "utf8"
    /\ buffer_pos = BufferLen - 2
    /\ buffer = [i \in 1..(BufferLen - 2) |-> CH.a]
    /\ \E c \in BOOLEAN :
          appended = [cleared |-> c, chars |-> [i \in 1..(BufferLen - 2) |-> CH.a]]

SpecStringNearFull == InitStringNearFull /\ [][NextString]_vars

\* C7: the write cursor never exceeds the capacity of the scratch buffer,
\* and an append that would exceed it is preceded by a flush: no append ends
\* in a write past the end of the buffer.
C7_CursorWithinCapacity ==
    /\ buffer_pos <= BufferLen
    /\ ~(op.name = "append" /\ ret = "panic" /\ buffer_pos >= BufferLen)

(***************************************************************************)
(* HtmlChunk                                                               *)
(***************************************************************************)

\* The chunk as one value.
Chunk == [chunk_type |-> chunk_type, hash_mode |-> hash_mode, html |-> html,
          chunk_offset |-> chunk_offset, chunk_length |-> chunk_length,
          tag |-> tag, closure |-> closure, end_closure |-> end_closure,
          comments |-> comments, entities |-> entities, lt_entity |-> lt_entity,
          params |-> params, params_count |-> params_count,
          param_names |-> param_names, param_values |-> param_values,
          param_chars |-> param_chars]

\* usize::to_string
RECURSIVE Decimal(_)
Decimal(n) == IF n < 10 THEN <<48 + n>> ELSE Decimal(n \div 10) \o <<48 + (n % 10)>>

\* A returned string, or a panic: [ok, s].
Returned(str) == [ok |-> TRUE, s |-> str]

Panicked == [ok |-> FALSE, s |-> <<>>]

\* The inner loop of make_safe_param_value, `for j in i..line.len()`, with
\* new_s built so far.  line.len() counts bytes and chars().nth(j) counts
\* characters: nth(j) is None from the number of characters on.
RECURSIVE EscapeFrom(_, _, _, _)
EscapeFrom(line, j, quote_ch, new_s) ==
    IF j >= ByteLen(line) THEN Returned(new_s)
    ELSE IF j >= Len(line) THEN Panicked
    ELSE LET ch == line[j + 1]
         IN  EscapeFrom(line, j + 1, quote_ch,
                        IF ch = quote_ch
                        THEN new_s \o <<CH.amp, CH.hash>> \o Decimal(ch) \o <<CH.semi>>
                        ELSE Append(new_s, ch))

\* The outer loop of make_safe_param_value, `for i in 0..line.len()`.
RECURSIVE SafeFrom(_, _, _)
SafeFrom(line, i, quote_ch) ==
    IF i >= ByteLen(line) THEN Returned(line)
    ELSE IF i >= Len(line) THEN Panicked
    ELSE IF line[i + 1] # quote_ch THEN SafeFrom(line, i + 1, quote_ch)
    ELSE EscapeFrom(line, i, quote_ch, SubSeq(line, 1, i))

make_safe_param_value(line, quote_ch) == SafeFrom(line, 0, quote_ch)

\* The characters for which generate_param_html quotes a short value.
NeedsQuote(val_ch) ==
    val_ch \in {CH.sp, CH.tab, CH.squote, CH.dquote, CH.lf, CH.cr}

\* The values of more than this many bytes are always quoted.
LongValue(val) == ByteLen(val) > 20

generate_param_html(name, val, ch) ==
    IF ByteLen(val) > 0
    THEN IF LongValue(val)
         THEN LET safe == make_safe_param_value(val, ch)
              IN  IF safe.ok
                  THEN Returned(name \o <<CH.eq, ch>> \o safe.s \o <<ch>>)
                  ELSE Panicked
         ELSE IF \E i \in 1..Len(val) : NeedsQuote(val[i])
         THEN LET safe == make_safe_param_value(val, CH.squote)
              IN  IF safe.ok
                  THEN Returned(name \o <<CH.eq, CH.squote>> \o safe.s \o <<CH.squote>>)
                  ELSE Panicked
         ELSE Returned(name \o <<CH.eq>> \o val)
    ELSE Returned(name)

\* The loop of generate_params_html over the attributes `ps`, each a
\* <<name, value, quote character>>, with new_html built so far.
RECURSIVE JoinParams(_, _)
JoinParams(ps, new_html) ==
    IF ps = <<>> THEN Returned(new_html)
    ELSE LET sep == IF ByteLen(new_html) > 0 THEN <<CH.sp>> ELSE <<>>
             one == generate_param_html(Head(ps)[1], Head(ps)[2], Head(ps)[3])
         IN  IF one.ok THEN JoinParams(Tail(ps), new_html \o sep \o one.s)
             ELSE Panicked

\* The attributes generate_params_html walks: in mapping mode the entries
\* of the mapping in the order `order` (the iteration order of the HashMap,
\* which the program does not choose), each with the quote character ';
\* otherwise the first params_count stored attributes.
ParamsWalked(C, order) ==
    IF C.hash_mode
    THEN IF C.params.some
         THEN [i \in 1..Len(order) |-> <<order[i], C.params.map[order[i]], CH.squote>>]
         ELSE <<>>
    ELSE [i \in 1..C.params_count |->
             <<C.param_names[i], C.param_values[i], C.param_chars[i]>>]

\* An index below params_count past the end of a stored vector.
ParamsOutOfBounds(C) ==
    /\ ~C.hash_mode
    /\ \/ C.params_count > Len(C.param_names)
       \/ C.params_count > Len(C.param_values)
       \/ C.params_count > Len(C.param_chars)

generate_params_html(C, order) ==
    IF ParamsOutOfBounds(C) THEN Panicked
    ELSE JoinParams(ParamsWalked(C, order), <<>>)

\* The tag forms of generate_html.
OpenForm(C, order) ==
    IF C.params_count > 0
    THEN LET ph == generate_params_html(C, order)
         IN  IF ph.ok THEN Returned(<<CH.lt>> \o C.tag \o <<CH.sp>> \o ph.s \o <<CH.gt>>)
             ELSE Panicked
    ELSE Returned(<<CH.lt>> \o C.tag \o <<CH.gt>>)

\* The test of generate_html for the self-closed form of a close tag.
SelfClosedForm(C) == C.params_count > 0 \/ C.end_closure

CloseForm(C, order) ==
    IF SelfClosedForm(C)
    THEN IF C.params_count > 0
         THEN LET ph == generate_params_html(C, order)
              IN  IF ph.ok
                  THEN Returned(<<CH.lt>> \o C.tag \o <<CH.sp>> \o ph.s \o <<CH.slash, CH.gt>>)
                  ELSE Panicked
         ELSE Returned(<<CH.lt>> \o C.tag \o <<CH.slash, CH.gt>>)
    ELSE Returned(<<CH.lt, CH.slash>> \o C.tag \o <<CH.gt>>)

\* "!--" and "![CDATA["
CommentTag == <<33, 45, 45>>

CDataTag == <<33, 91, 67, 68, 65, 84, 65, 91>>

generate_html(C, order) ==
    CASE C.chunk_type = "OpenTag" -> OpenForm(C, order)
      [] C.chunk_type = "CloseTag" -> CloseForm(C, order)
      [] C.chunk_type = "Script" ->
            IF ByteLen(C.html) = 0
            THEN Returned(<<60, 115, 99, 114, 105, 112, 116, 62, 110, 47, 97,
                            60, 47, 115, 99, 114, 105, 112, 116, 62>>)  \* "<script>n/a</script>"
            ELSE Returned(C.html)
      [] C.chunk_type = "Comment" ->
            IF C.tag = CommentTag
            THEN IF ByteLen(C.html) = 0
                 THEN Returned(<<60, 33, 45, 45, 32, 110, 47, 97, 32, 45, 45, 62>>)  \* "<!-- n/a -->"
                 ELSE Returned(<<60, 33, 45, 45>> \o C.html \o <<45, 45, 62>>)
            ELSE IF C.tag = CDataTag
            THEN IF ByteLen(C.html) = 0
                 THEN Returned(<<60, 33, 91, 67, 68, 65, 84, 65, 91, 32, 110, 47, 97,
                                 32, 10, 93, 93, 62>>)               \* "<![CDATA[ n/a \n]]>"
                 ELSE Returned(<<60, 33, 91, 67, 68, 65, 84, 65, 91>> \o C.html \o <<93, 93, 62>>)
            ELSE Returned(<<>>)
      [] OTHER -> Returned(C.html)

\* -> the chunk after convert_params_to_hash.  An index past the end of
\* param_names or param_values is out of bounds.
convert_params_to_hash_panics(C) ==
    C.params_count > Len(C.param_names) \/ C.params_count > Len(C.param_values)

RECURSIVE InsertAll(_, _, _, _)
InsertAll(h, names, values, n) ==
    IF n = 0 THEN h
    ELSE Put(InsertAll(h, names, values, n - 1), names[n], values[n])

convert_params_to_hash(C) ==
    [C EXCEPT !.params = [some |-> TRUE,
                          map |-> InsertAll(EmptyMap, C.param_names, C.param_values,
                                            C.params_count)]]

clear_chunk(C) ==
    [C EXCEPT !.tag = <<>>, !.html = <<>>, !.lt_entity = FALSE, !.entities = FALSE,
              !.comments = FALSE, !.closure = FALSE, !.end_closure = FALSE,
              !.params_count = 0,
              !.params = IF C.hash_mode /\ C.params.some
                         THEN [some |-> TRUE, map |-> EmptyMap] ELSE @]

\* The loop of get_param_value in ordered mode, from index i on.
RECURSIVE FindValue(_, _, _)
FindValue(C, name, i) ==
    IF i > C.params_count THEN <<>>
    ELSE IF C.param_values[i] = name THEN C.param_values[i]
    ELSE FindValue(C, name, i + 1)

get_param_value(C, name) ==
    IF C.hash_mode
    THEN IF C.params.some /\ name \in DOMAIN C.params.map THEN C.params.map[name] ELSE <<>>
    ELSE FindValue(C, name, 1)

(***************************************************************************)
(* The chunk under regeneration                                            *)
(***************************************************************************)

MaxParams == 2

MaxChunkOps == 2

X(n) == Repeat(CH.x, n)

\* "it's"
Its == <<105, 116, 39, 115>>

\* The attributes a chunk is filled with, <<name, value, quote character>>:
\* empty, bare, short and long values, with and without the characters that
\* make generate_param_html quote, with and without a character of more
\* than one byte.
ParamInputs ==
    { <<<<CH.x>>, <<>>, CH.squote>>,                         \* x
      <<<<CH.x>>, <<CH.a>>, CH.dquote>>,                     \* x="a"
      <<<<CH.y>>, <<CH.a, CH.sp, CH.b>>, CH.dquote>>,        \* y="a b"
      <<<<CH.y>>, <<CH.a, CH.lf, CH.b>>, CH.squote>>,        \* y='a\nb'
      <<<<CH.y>>, Its, CH.dquote>>,                          \* y="it's"
      <<<<CH.x>>, <<CH.a, CH.dquote>>, CH.squote>>,          \* x='a"'
      <<<<CH.x>>, X(20), CH.squote>>,                        \* 20 bytes
      <<<<CH.y>>, X(21), CH.dquote>>,                        \* 21 bytes
      <<<<CH.x>>, Its \o X(20), CH.squote>>,                 \* long, ' in '
      <<<<CH.y>>, Its \o X(20), CH.dquote>>,                 \* long, ' in "
      <<<<CH.y>>, <<CH.eacute>>, CH.squote>>,                \* y='é'
      <<<<CH.y>>, <<CH.eacute, CH.sp, CH.b>>, CH.squote>>,   \* y='é b'
      <<<<CH.x>>, <<CH.eacute, CH.squote>>, CH.dquote>>,     \* x="é'"
      <<<<CH.x>>, <<CH.eacute>> \o X(19), CH.dquote>>,       \* 21 bytes, 20 characters
      <<<<CH.y>>, <<CH.squote, CH.amp, CH.hash, 51, 57, CH.semi>>, CH.dquote>> } \* y="'&#39;"

RECURSIVE ParamLists(_)
ParamLists(n) ==
    IF n = 0 THEN {<<>>}
    ELSE ParamLists(n - 1) \cup
         {Append(l, q) : l \in {m \in ParamLists(n - 1) : Len(m) = n - 1}, q \in ParamInputs}

\* The mapping a tag's attributes leave in mapping mode.
RECURSIVE ParamsHash(_)
ParamsHash(l) ==
    IF l = <<>> THEN EmptyMap
    ELSE Put(ParamsHash(SubSeq(l, 1, Len(l) - 1)), l[Len(l)][1], l[Len(l)][2])

\* The orders in which a HashMap holding the keys S may be iterated.
Orders(S) ==
    {o \in [1..Cardinality(S) -> S] : \A i, j \in 1..Cardinality(S) : o[i] = o[j] => i = j}

KeyOrders == IF params.some THEN Orders(DOMAIN params.map) ELSE {<<>>}

\* A tag chunk as filled from parsed markup: the attributes in the stored
\* vectors, or in the mapping when the chunk was built in mapping mode.
TagChunk ==
    \E l \in ParamLists(MaxParams) :
       /\ chunk_type \in {"OpenTag", "CloseTag"}
       /\ hash_mode \in BOOLEAN
       /\ tag = <<CH.a>>
       /\ html = <<>>
       /\ end_closure \in BOOLEAN
       /\ closure = (chunk_type = "CloseTag")
       /\ comments = FALSE
       /\ IF hash_mode
          THEN /\ params = [some |-> TRUE, map |-> ParamsHash(l)]
               /\ params_count = Cardinality(DOMAIN params.map)
               /\ param_names = <<>>
               /\ param_values = <<>>
               /\ param_chars = <<>>
          ELSE /\ params = [some |-> FALSE, map |-> EmptyMap]
               /\ params_count = Len(l)
               /\ param_names = [i \in 1..Len(l) |-> l[i][1]]
               /\ param_values = [i \in 1..Len(l) |-> l[i][2]]
               /\ param_chars = [i \in 1..Len(l) |-> l[i][3]]

\* A text, comment, CDATA or script chunk.
BodyChunk ==
    /\ \/ chunk_type = "Text" /\ tag = <<>>
       \/ chunk_type = "Script" /\ tag = <<115, 99, 114, 105, 112, 116>>
       \/ chunk_type = "Comment" /\ tag \in {CommentTag, CDataTag, <<CH.x>>}
    /\ hash_mode \in BOOLEAN
    /\ html \in {<<>>, <<104, 105>>}
    /\ end_closure = FALSE
    /\ closure = FALSE
    /\ comments = (chunk_type = "Comment")
    /\ params = [some |-> hash_mode, map |-> EmptyMap]
    /\ params_count = 0
    /\ param_names = <<>>
    /\ param_values = <<>>
    /\ param_chars = <<>>

InitChunk ==
    /\ IdleHeuristics
    /\ NewString
    /\ NewParser
    /\ NoCall
    /\ chunk_offset = 0
    /\ chunk_length = 0
    /\ entities = FALSE
    /\ lt_entity = FALSE
    /\ (TagChunk \/ BodyChunk)

SetChunk(C) ==
    /\ chunk_type' = C.chunk_type
    /\ hash_mode' = C.hash_mode
    /\ html' = C.html
    /\ chunk_offset' = C.chunk_offset
    /\ chunk_length' = C.chunk_length
    /\ tag' = C.tag
    /\ closure' = C.closure
    /\ end_closure' = C.end_closure
    /\ comments' = C.comments
    /\ entities' = C.entities
    /\ lt_entity' = C.lt_entity
    /\ params' = C.params
    /\ params_count' = C.params_count
    /\ param_names' = C.param_names
    /\ param_values' = C.param_values
    /\ param_chars' = C.param_chars

ChunkStep ==
    /\ steps < MaxChunkOps
    /\ ret # "panic"
    /\ steps' = steps + 1
    /\ UNCHANGED <<heurVars, strVars, parserVars>>

Outcome(r) == IF r.ok THEN "ok" ELSE "panic"

\* generate_html; op.a is the order in which the mapping was iterated.
GenerateHtml ==
    /\ ChunkStep
    /\ \E order \in KeyOrders :
          LET r == generate_html(Chunk, order)
          IN  /\ ret' = Outcome(r)
              /\ out' = r.s
              /\ op' = [name |-> "generate_html", a |-> order, b |-> <<>>]
    /\ UNCHANGED chunkVars

\* The attribute a call of generate_param_html is made for: op.a is <<i>>,
\* the index of a stored attribute, or in mapping mode a key of the mapping.
ParamAt(C, a) ==
    IF C.hash_mode THEN <<a, C.params.map[a], CH.squote>>
    ELSE <<C.param_names[a[1]], C.param_values[a[1]], C.param_chars[a[1]]>>

ParamRefs ==
    IF hash_mode THEN (IF params.some THEN DOMAIN params.map ELSE {})
    ELSE {<<i>> : i \in 1..params_count}

\* One call of generate_param_html, as generate_params_html makes it.
GenerateParamHtml ==
    /\ ChunkStep
    /\ \E a \in ParamRefs :
          LET p == ParamAt(Chunk, a)
              r == generate_param_html(p[1], p[2], p[3])
          IN  /\ ret' = Outcome(r)
              /\ out' = r.s
              /\ op' = [name |-> "generate_param_html", a |-> a, b |-> <<>>]
    /\ UNCHANGED chunkVars

ClearChunk ==
    /\ ChunkStep
    /\ SetChunk(clear_chunk(Chunk))
    /\ ret' = "ok"
    /\ op' = [name |-> "clear", a |-> <<>>, b |-> <<>>]
    /\ UNCHANGED out

ConvertParamsToHash ==
    /\ ChunkStep
    /\ IF convert_params_to_hash_panics(Chunk)
       THEN /\ SetChunk([Chunk EXCEPT !.params = [some |-> TRUE, map |-> EmptyMap]])
            /\ ret' = "panic"
       ELSE /\ SetChunk(convert_params_to_hash(Chunk))
            /\ ret' = "ok"
    /\ op' = [name |-> "convert_params_to_hash", a |-> <<>>, b |-> <<>>]
    /\ UNCHANGED out

GetParamValue ==
    /\ ChunkStep
    /\ \E name \in {<<CH.x>>, <<CH.y>>, <<CH.a>>} :
          /\ out' = get_param_value(Chunk, name)
          /\ op' = [name |-> "get_param_value", a |-> name, b |-> <<>>]
    /\ ret' = "ok"
    /\ UNCHANGED chunkVars

NextChunk ==
    \/ GenerateHtml
    \/ GenerateParamHtml
    \/ ClearChunk
    \/ ConvertParamsToHash
    \/ GetParamValue

SpecChunk == InitChunk /\ [][NextChunk]_vars

(***************************************************************************)
(* Claims on regeneration                                                  *)
(***************************************************************************)

\* The texts joined by single spaces.
RECURSIVE JoinSp(_)
JoinSp(texts) ==
    IF texts = <<>> THEN <<>>
    ELSE IF Len(texts) = 1 THEN texts[1]
    ELSE texts[1] \o <<CH.sp>> \o JoinSp(Tail(texts))

\* The text of each attribute of the chunk, in stored order (in mapping
\* mode, where nothing stores an order, in the order of the iteration).
AttrTexts(order) ==
    LET ps == ParamsWalked(Chunk, order)
    IN  [i \in 1..Len(ps) |-> generate_param_html(ps[i][1], ps[i][2], ps[i][3]).s]

\* '<' name [' ' attributes] close
Framed(open, order, close) ==
    open \o tag \o (IF params_count > 0 THEN <<CH.sp>> \o JoinSp(AttrTexts(order)) ELSE <<>>)
         \o close

\* The tag form the kind, the attribute count and the self-closing marker
\* call for.
TagForm(order) ==
    IF chunk_type = "OpenTag" THEN Framed(<<CH.lt>>, order, <<CH.gt>>)
    ELSE IF params_count = 0 /\ ~end_closure THEN <<CH.lt, CH.slash>> \o tag \o <<CH.gt>>
    ELSE Framed(<<CH.lt>>, order, <<CH.slash, CH.gt>>)

\* C8: generate_html on an OpenTag yields '<' name [' ' attributes] '>', on
\* a CloseTag with no attribute and end_closure false '</' name '>', on a
\* CloseTag with an attribute or end_closure true '<' name [' ' attributes]
\* '/>', the attributes in stored order separated by single spaces.
C8_TagForms ==
    (op.name = "generate_html" /\ chunk_type \in {"OpenTag", "CloseTag"}) =>
        /\ ret = "ok"
        /\ out = TagForm(op.a)

\* C8, for the calls that return: the form is the one C8 names.
C8_TagFormsWhenReturned ==
    (op.name = "generate_html" /\ chunk_type \in {"OpenTag", "CloseTag"} /\ ret = "ok") =>
        out = TagForm(op.a)

\* The attribute of the last call of generate_param_html.
CalledParam == ParamAt(Chunk, op.a)

\* o is name, '=', a quote character, a value, the same quote character.
IsQuoted(o, name) ==
    /\ Len(o) >= Len(name) + 3
    /\ SubSeq(o, 1, Len(name) + 1) = name \o <<CH.eq>>
    /\ o[Len(name) + 2] \in {CH.squote, CH.dquote}
    /\ o[Len(o)] = o[Len(name) + 2]

WrappingQuote(o, name) == o[Len(name) + 2]

WrappedValue(o, name) == SubSeq(o, Len(name) + 3, Len(o) - 1)

IsDigit(ch) == ch \in 48..57

\* The length of the run of digits of t from index i on.
RECURSIVE DigitRun(_, _)
DigitRun(t, i) == IF i <= Len(t) /\ IsDigit(t[i]) THEN 1 + DigitRun(t, i + 1) ELSE 0

RECURSIVE DecimalValue(_)
DecimalValue(ds) ==
    IF ds = <<>> THEN 0
    ELSE 10 * DecimalValue(SubSeq(ds, 1, Len(ds) - 1)) + (ds[Len(ds)] - 48)

\* t with every numeric character reference &#NN; replaced by its
\* character, as a reader of the markup decodes it.
RECURSIVE DecodeRefs(_)
DecodeRefs(t) ==
    IF t = <<>> THEN <<>>
    ELSE LET n == DigitRun(t, 3)
         IN  IF /\ Len(t) >= 4
                /\ t[1] = CH.amp
                /\ t[2] = CH.hash
                /\ n > 0
                /\ Len(t) >= n + 3
                /\ t[n + 3] = CH.semi
             THEN <<DecimalValue(SubSeq(t, 3, n + 2))>> \o DecodeRefs(SubSeq(t, n + 4, Len(t)))
             ELSE <<t[1]>> \o DecodeRefs(Tail(t))

Contains(t, ch) == \E i \in 1..Len(t) : t[i] = ch

\* C9: a value containing a single quote is emitted wrapped in the
\* alternate quote character, the double quote, with no raw occurrence of
\* the wrapping quote inside, and decoding the numeric references of the
\* emitted value gives back the value.
C9_QuoteRoundTrip ==
    (op.name = "generate_param_html" /\ Contains(CalledParam[2], CH.squote)) =>
        /\ ret = "ok"
        /\ IsQuoted(out, CalledParam[1])
        /\ WrappingQuote(out, CalledParam[1]) = CH.dquote
        /\ ~Contains(WrappedValue(out, CalledParam[1]), WrappingQuote(out, CalledParam[1]))
        /\ DecodeRefs(WrappedValue(out, CalledParam[1])) = CalledParam[2]

\* C9 without the choice of the quote, for the values of one-byte
\* characters that hold no reference of their own: the emitted value has no
\* raw wrapping quote and decodes to the value.
C9_EscapedRoundTripAscii ==
    (/\ op.name = "generate_param_html"
     /\ Contains(CalledParam[2], CH.squote)
     /\ ByteLen(CalledParam[2]) = Len(CalledParam[2])
     /\ DecodeRefs(CalledParam[2]) = CalledParam[2]) =>
        /\ ret = "ok"
        /\ IsQuoted(out, CalledParam[1])
        /\ ~Contains(WrappedValue(out, CalledParam[1]), WrappingQuote(out, CalledParam[1]))
        /\ DecodeRefs(WrappedValue(out, CalledParam[1])) = CalledParam[2]

\* C10: a value of more than 20 bytes is emitted between quote characters;
\* a non-empty value of at most 20 bytes is emitted quoted exactly when it
\* holds a space, tab, CR, LF, single or double quote, and otherwise bare
\* as name=value; an empty value emits the name alone.
C10_QuotingRule ==
    (op.name = "generate_param_html") =>
        LET name == CalledParam[1]
            val == CalledParam[2]
        IN  /\ ret = "ok"
            /\ ByteLen(val) = 0 => out = name
            /\ ByteLen(val) > 20 => IsQuoted(out, name)
            /\ (ByteLen(val) > 0 /\ ByteLen(val) <= 20) =>
                  IF \E i \in 1..Len(val) :
                        val[i] \in {CH.sp, CH.tab, CH.cr, CH.lf, CH.squote, CH.dquote}
                  THEN IsQuoted(out, name)
                  ELSE out = name \o <<CH.eq>> \o val

\* C10, for the calls that return: quoted, bare or the name alone as C10
\* names.
C10_QuotingRuleWhenReturned ==
    (op.name = "generate_param_html" /\ ret = "ok") =>
        LET name == CalledParam[1]
            val == CalledParam[2]
        IN  /\ ByteLen(val) = 0 => out = name
            /\ ByteLen(val) > 20 => IsQuoted(out, name)
            /\ (ByteLen(val) > 0 /\ ByteLen(val) <= 20) =>
                  IF \E i \in 1..Len(val) :
                        val[i] \in {CH.sp, CH.tab, CH.cr, CH.lf, CH.squote, CH.dquote}
                  THEN IsQuoted(out, name)
                  ELSE out = name \o <<CH.eq>> \o val

(***************************************************************************)
(* The tokenizer engine: the next-token operation of the parser, over      *)
(* html_bytes, current_position and data_length.  Positions count from 0.  *)
(* The spans, kinds, names and closing markers of the chunks are           *)
(* modelled; the decoded text and the stored attributes are not.           *)
(***************************************************************************)

\* The byte at position i, -1 past the end of the buffer.
ByteAt(B, i) == IF i >= 0 /\ i < Len(B) THEN B[i + 1] ELSE -1

IsLetter(b) == b \in 65..90 \/ b \in 97..122

\* The identifier-like bytes a tag name is read over.
IsNameByte(b) == IsLetter(b) \/ b \in 48..57 \/ b \in {45, 58, 95}

\* space, tab, CR, LF
IsWs(b) == b \in {CH.sp, CH.tab, CH.cr, CH.lf}

LowerBytes(t) == [i \in 1..Len(t) |-> IF t[i] \in 65..90 THEN t[i] + 32 ELSE t[i]]

StartsWith(B, i, lit) ==
    i + Len(lit) <= Len(B) /\ SubSeq(B, i + 1, i + Len(lit)) = lit

StartsWithAnyCase(B, i, lit) ==
    i + Len(lit) <= Len(B) /\ LowerBytes(SubSeq(B, i + 1, i + Len(lit))) = lit

CommentOpen == <<60, 33, 45, 45>>                       \* "<!--"

CommentClose == <<45, 45, 62>>                          \* "-->"

CDataOpen == <<60, 33, 91, 67, 68, 65, 84, 65, 91>>     \* "<![CDATA["

CDataClose == <<93, 93, 62>>                            \* "]]>"

ScriptName == <<115, 99, 114, 105, 112, 116>>           \* "script"

ScriptClose == <<60, 47, 115, 99, 114, 105, 112, 116, 62>>  \* "</script>"

\* The position of the first lit at or after i, -1 when there is none.
RECURSIVE FindLit(_, _, _)
FindLit(B, i, lit) ==
    IF i + Len(lit) > Len(B) THEN -1
    ELSE IF StartsWith(B, i, lit) THEN i
    ELSE FindLit(B, i + 1, lit)

FindLitAnyCase_CaseSensitive(B, i, lit) == FindLit(B, i, lit)

RECURSIVE FindLitAnyCase(_, _, _)
FindLitAnyCase(B, i, lit) ==
    IF i + Len(lit) > Len(B) THEN -1
    ELSE IF StartsWithAnyCase(B, i, lit) THEN i
    ELSE FindLitAnyCase(B, i + 1, lit)

ClosedAt_OpenerOnly(B, i, lit) ==
    IF FindLit(B, i, lit) = -1 THEN i ELSE FindLit(B, i, lit) + Len(lit)

ClosedAt_PastEnd(B, i, lit) ==
    IF FindLit(B, i, lit) = -1 THEN Len(B) + 1 ELSE FindLit(B, i, lit) + Len(lit)

\* Where a scan from i to the closing lit ends: past the lit, or at the
\* end of the buffer when the lit is missing.
ClosedAt(B, i, lit) ==
    IF FindLit(B, i, lit) = -1 THEN Len(B) ELSE FindLit(B, i, lit) + Len(lit)

\* A '<' at i that opens a close tag, a comment, a CDATA section or an open
\* tag; any other '<' is ordinary text.
MarkupStart(B, i) ==
    /\ ByteAt(B, i) = CH.lt
    /\ \/ ByteAt(B, i + 1) = CH.slash
       \/ StartsWith(B, i, CommentOpen)
       \/ StartsWith(B, i, CDataOpen)
       \/ IsLetter(ByteAt(B, i + 1))

\* The end of the run of text that holds position i - 1: the next '<' that
\* opens markup, or the end of the buffer.
RECURSIVE TextEnd(_, _)
TextEnd(B, i) ==
    IF i >= Len(B) \/ MarkupStart(B, i) THEN i ELSE TextEnd(B, i + 1)

RECURSIVE NameEnd(_, _)
NameEnd(B, i) == IF IsNameByte(ByteAt(B, i)) THEN NameEnd(B, i + 1) ELSE i

RECURSIVE SkipWs(_, _)
SkipWs(B, i) == IF IsWs(ByteAt(B, i)) THEN SkipWs(B, i + 1) ELSE i

\* The end of an attribute name read from i.
RECURSIVE AttrNameEnd(_, _)
AttrNameEnd(B, i) ==
    IF i >= Len(B) \/ IsWs(ByteAt(B, i)) \/ ByteAt(B, i) \in {CH.eq, CH.gt, CH.slash}
    THEN i ELSE AttrNameEnd(B, i + 1)

\* The end of an unquoted value read from i: whitespace or '>'.
RECURSIVE ValueEnd(_, _)
ValueEnd(B, i) ==
    IF i >= Len(B) \/ IsWs(ByteAt(B, i)) \/ ByteAt(B, i) = CH.gt
    THEN i ELSE ValueEnd(B, i + 1)

\* The attributes of a tag from i on, n of them read so far -> where the
\* tag ends, whether its closing '>' was found, and the number of
\* attributes.  A quoted value runs to its matching quote, a '>' inside it
\* included; a tag or a quoted value that the buffer cuts short ends at the
\* end of the buffer.
RECURSIVE ScanAttrs(_, _, _)
ScanAttrs(B, i, n) ==
    LET j == SkipWs(B, i)
    IN  IF j >= Len(B) THEN [end |-> Len(B), closed |-> FALSE, count |-> n]
        ELSE IF ByteAt(B, j) = CH.gt THEN [end |-> j + 1, closed |-> TRUE, count |-> n]
        ELSE IF ByteAt(B, j) = CH.slash THEN ScanAttrs(B, j + 1, n)
        ELSE LET e == SkipWs(B, AttrNameEnd(B, j))
             IN  IF ByteAt(B, e) = CH.eq
                 THEN LET v == SkipWs(B, e + 1)
                      IN  IF ByteAt(B, v) \in {CH.squote, CH.dquote}
                          THEN LET q == FindLit(B, v + 1, <<ByteAt(B, v)>>)
                               IN  IF q = -1
                                   THEN [end |-> Len(B), closed |-> FALSE, count |-> n + 1]
                                   ELSE ScanAttrs(B, q + 1, n + 1)
                          ELSE ScanAttrs(B, ValueEnd(B, v), n + 1)
                 ELSE ScanAttrs(B, AttrNameEnd(B, j), n + 1)

SpanLength_WithoutLastByte(from, to) == to - from - 1

\* The byte length of the chunk that runs from `from` up to `to`.
SpanLength(from, to) == to - from

\* Configuration flag of the parser, at its default.
mark_closed_tags_with_params_as_open == TRUE

SelfClosed_SlashAfterNameOnly(B, ne, a) ==
    a.closed /\ ByteAt(B, ne) = CH.slash /\ ByteAt(B, ne + 1) = CH.gt

\* The self-closing marker of the tag whose name ends at ne and whose
\* attributes scan as a: a '/' immediately before the closing '>'.
SelfClosed(B, ne, a) ==
    a.closed /\ a.end - 2 >= ne /\ ByteAt(B, a.end - 2) = CH.slash

\* The chunk a tag at pos gives.  A '/' right before the closing '>' marks
\* the tag self-closing; a tag named script that is not a close tag runs
\* through the matching </script>.
TagChunkAt(B, pos) ==
    LET closing == ByteAt(B, pos + 1) = CH.slash
        ns == IF closing THEN pos + 2 ELSE pos + 1
        ne == NameEnd(B, ns)
        name == LowerBytes(SubSeq(B, ns + 1, ne))
        a == ScanAttrs(B, ne, 0)
        solo == SelfClosed(B, ne, a)
        script == ~closing /\ name = ScriptName
        scriptEnd == IF ~a.closed \/ FindLitAnyCase(B, a.end, ScriptClose) = -1
                     THEN Len(B)
                     ELSE FindLitAnyCase(B, a.end, ScriptClose) + Len(ScriptClose)
    IN  [kind |-> IF script THEN "Script"
                  ELSE IF (closing \/ solo)
                          /\ ~(a.count > 0 /\ mark_closed_tags_with_params_as_open)
                  THEN "CloseTag"
                  ELSE "OpenTag",
         offset |-> pos,
         length |-> SpanLength(pos, IF script THEN scriptEnd ELSE a.end),
         next |-> IF script THEN scriptEnd ELSE a.end,
         tag |-> name,
         closure |-> closing,
         end_closure |-> solo]

\* The chunk at pos, for pos inside the buffer.
parse_next(B, pos) ==
    IF StartsWith(B, pos, CommentOpen)
    THEN [kind |-> "Comment", offset |-> pos,
          length |-> SpanLength(pos, ClosedAt(B, pos + Len(CommentOpen), CommentClose)),
          next |-> ClosedAt(B, pos + Len(CommentOpen), CommentClose),
          tag |-> CommentTag, closure |-> FALSE, end_closure |-> FALSE]
    ELSE IF StartsWith(B, pos, CDataOpen)
    THEN [kind |-> "Comment", offset |-> pos,
          length |-> SpanLength(pos, ClosedAt(B, pos + Len(CDataOpen), CDataClose)),
          next |-> ClosedAt(B, pos + Len(CDataOpen), CDataClose),
          tag |-> CDataTag, closure |-> FALSE, end_closure |-> FALSE]
    ELSE IF MarkupStart(B, pos) THEN TagChunkAt(B, pos)
    ELSE [kind |-> "Text", offset |-> pos,
          length |-> SpanLength(pos, TextEnd(B, pos + 1)),
          next |-> TextEnd(B, pos + 1),
          tag |-> <<>>, closure |-> FALSE, end_closure |-> FALSE]

(***************************************************************************)
(* The parser pulling tokens from an assigned buffer                       *)
(***************************************************************************)

MaxPieces == 3

\* The pieces of markup the buffers are put together from.
Pieces ==
    { <<CH.lt>>, <<CH.gt>>, <<CH.slash>>, <<CH.a>>, <<CH.sp>>,
      <<CH.eq, CH.squote>>,                                   \* ='
      CommentOpen, CommentClose,
      <<CH.lt>> \o ScriptName \o <<CH.gt>>,                   \* <script>
      ScriptClose }

RECURSIVE Pieced(_)
Pieced(n) ==
    IF n = 0 THEN {<<>>}
    ELSE Pieced(n - 1) \cup {b \o q : b \in Pieced(n - 1), q \in Pieces}

\* Whole documents: tags within text, an unterminated comment, a script
\* body holding '<', white space before a tag, CDATA closed and cut short,
\* '>' and a quote inside quoted values, an unmatched quote, self-closed
\* tags, a close tag with an attribute, names in upper case.
Documents ==
    { <<60,112,62,104,101,108,108,111,32,60,98,62,119,111,114,108,100,
        60,47,98,62,60,47,112,62>>,                           \* <p>hello <b>world</b></p>
      <<60,33,45,45,32,117,110,116,101,114,109,105,110,97,116,101,100>>,
                                                              \* <!-- unterminated
      <<60,115,99,114,105,112,116,62,105,102,32,40,97,60,98,41,32,123,125,
        60,47,115,99,114,105,112,116,62>>,                    \* <script>if (a<b) {}</script>
      <<97,32,10,9,32,60,98,62>>,                             \* a \n\t <b>
      <<60,33,91,67,68,65,84,65,91,97,93,93,62,98>>,          \* <![CDATA[a]]>b
      <<60,33,91,67,68,65,84,65,91,97,93>>,                   \* <![CDATA[a]
      <<60,97,32,120,61,39,62,39,62,98>>,                     \* <a x='>'>b
      <<60,97,32,120,61,34,39,62,34,32,121,62,60,47,97,62>>,  \* <a x="'>" y></a>
      <<60,97,32,120,61,34,62,60,98,62>>,                     \* <a x="><b>
      <<60,98,114,47,62,60,66,82,32,47,62>>,                  \* <br/><BR />
      <<60,47,97,32,120,61,49,62,97,60>>,                     \* </a x=1>a<
      <<60,83,67,82,73,80,84,32,120,62,60,97,62,60,47,83,67,82,73,80,84,62,60,97,62>>,
                                                              \* <SCRIPT x><a></SCRIPT><a>
      <<49,60,50,32,60,32,60,97,62,60,33,45,62>> }            \* 1<2 < <a><!->

Buffers == Pieced(MaxPieces) \cup Documents

\* A parser with a buffer assigned and the cursor at its start.
InitTokenizer ==
    /\ IdleHeuristics
    /\ NewString
    /\ NewChunk(FALSE)
    /\ NoCall
    /\ html_bytes \in Buffers
    /\ data_length = Len(html_bytes)
    /\ current_position = 0
    /\ returned = <<>>

\* One request for the next token: at the end of the buffer the
\* end-of-input signal, otherwise the reused chunk cleared and filled, and
\* the cursor moved past it.
ParseNext ==
    /\ ret # "panic"
    /\ op' = [name |-> "parse_next", a |-> <<>>, b |-> <<>>]
    /\ IF current_position >= data_length
       THEN /\ ret' = "end"
            /\ UNCHANGED <<chunkVars, current_position, returned>>
       ELSE LET t == parse_next(html_bytes, current_position)
            IN  /\ SetChunk([clear_chunk(Chunk) EXCEPT
                                !.chunk_type = t.kind,
                                !.chunk_offset = t.offset,
                                !.chunk_length = t.length,
                                !.tag = t.tag,
                                !.closure = t.closure,
                                !.end_closure = t.end_closure])
                /\ current_position' = t.next
                /\ returned' = Append(returned, [kind |-> t.kind, offset |-> t.offset,
                                                 length |-> t.length])
                /\ ret' = "chunk"
    /\ UNCHANGED <<heurVars, strVars, html_bytes, data_length, constructed, out, steps>>

NextTokenizer == ParseNext

SpecTokenizer == InitTokenizer /\ [][NextTokenizer]_vars

(***************************************************************************)
(* Claims on the token stream                                              *)
(***************************************************************************)

\* Where the i-th returned span must start: at 0, or where the span before
\* it ends.
ExpectedStart(i) ==
    IF i = 1 THEN 0 ELSE returned[i - 1].offset + returned[i - 1].length

\* The end of the last returned span, 0 when nothing was returned.
CoveredUpTo == ExpectedStart(Len(returned) + 1)

\* The raw bytes of the first n returned spans, concatenated.
RECURSIVE RawSpans(_)
RawSpans(n) ==
    IF n = 0 THEN <<>>
    ELSE RawSpans(n - 1) \o SubSeq(html_bytes, returned[n].offset + 1,
                                   returned[n].offset + returned[n].length)

\* C5: the spans of the chunks returned by successive calls are in
\* increasing order, contiguous and non-overlapping, start at offset 0 and,
\* once end-of-input is returned, end at the buffer length, so that the
\* raw spans concatenated are the input.
C5_SpansCoverBuffer ==
    /\ \A i \in 1..Len(returned) :
          /\ returned[i].offset = ExpectedStart(i)
          /\ returned[i].length > 0
    /\ CoveredUpTo <= data_length
    /\ ret = "end" => (CoveredUpTo = data_length /\ RawSpans(Len(returned)) = html_bytes)

\* A buffer read to its end in at least four chunks, text and tags among
\* them.
C5_Witness ==
    /\ ret = "end"
    /\ Len(returned) >= 4
    /\ \E i, j \in 1..Len(returned) :
          returned[i].kind = "Text" /\ returned[j].kind \in {"OpenTag", "CloseTag"}

SpanEnd(i) == returned[i].offset + returned[i].length

\* "<script"
ScriptOpen == <<CH.lt>> \o ScriptName

\* The i-th returned chunk starts at a script open tag.
AtScriptOpen(i) ==
    /\ returned[i].offset + Len(ScriptOpen) <= data_length
    /\ to_lowercase(SubSeq(html_bytes, returned[i].offset + 1,
                           returned[i].offset + Len(ScriptOpen))) = ScriptOpen
    /\ ~IsNameByte(ByteAt(html_bytes, returned[i].offset + Len(ScriptOpen)))

\* The positions from `from` on at which </script> is written, in any case.
ScriptCloses(from) ==
    {c \in from..(data_length - Len(ScriptClose)) :
        to_lowercase(SubSeq(html_bytes, c + 1, c + Len(ScriptClose))) = ScriptClose}

\* Where the script that opens the i-th returned chunk ends: past the first
\* </script> after its open tag, or at the end of the buffer.
ScriptEnds(i) ==
    LET open == ScanAttrs(html_bytes, returned[i].offset + Len(ScriptOpen), 0)
        closes == IF open.closed THEN ScriptCloses(open.end) ELSE {}
    IN  IF closes = {} THEN data_length
        ELSE (CHOOSE c \in closes : \A e \in closes : c <= e) + Len(ScriptClose)

\* C11: a chunk that starts at a script open tag is a single Script chunk
\* running through the matching </script> (the end of the buffer when
\* there is none), and no chunk of any kind starts inside it.
C11_ScriptOpaque ==
    \A i \in 1..Len(returned) :
        AtScriptOpen(i) =>
            /\ returned[i].kind = "Script"
            /\ SpanEnd(i) = ScriptEnds(i)
            /\ \A j \in 1..Len(returned) :
                  ~(returned[j].offset > returned[i].offset
                    /\ returned[j].offset < ScriptEnds(i))

\* A script whose body holds a '<' followed by a letter, closed by
\* </SCRIPT> in upper case, with a chunk returned after it.
C11_Witness ==
    \E i \in 1..Len(returned) :
        /\ AtScriptOpen(i)
        /\ i < Len(returned)
        /\ \E k \in (returned[i].offset + 1)..(SpanEnd(i) - Len(ScriptClose) - 1) :
              ByteAt(html_bytes, k) = CH.lt /\ IsLetter(ByteAt(html_bytes, k + 1))
        /\ SubSeq(html_bytes, SpanEnd(i) - Len(ScriptClose) + 1, SpanEnd(i)) # ScriptClose

\* The i-th returned chunk starts at a comment opener that no --> follows.
AtUnterminatedComment(i) ==
    /\ returned[i].offset + Len(CommentOpen) <= data_length
    /\ SubSeq(html_bytes, returned[i].offset + 1,
              returned[i].offset + Len(CommentOpen)) = CommentOpen
    /\ \A c \in (returned[i].offset + Len(CommentOpen))..(data_length - Len(CommentClose)) :
          SubSeq(html_bytes, c + 1, c + Len(CommentClose)) # CommentClose

\* C12: a comment opener that no --> follows gives one Comment chunk from
\* the opener to the end of the buffer, the last chunk of the buffer; the
\* call after it returns end-of-input, and no call ends in an error.
C12_UnterminatedComment ==
    /\ [](\A i \in 1..Len(returned) :
             AtUnterminatedComment(i) =>
                 /\ returned[i].kind = "Comment"
                 /\ SpanEnd(i) = data_length
                 /\ i = Len(returned)
                 /\ current_position = data_length
                 /\ ret \in {"chunk", "end"})
    /\ [][(returned # <<>> /\ AtUnterminatedComment(Len(returned)))
             => (ret' = "end" /\ returned' = returned)]_vars

\* End-of-input returned after an unterminated comment that holds more
\* than its opener and follows another chunk.
C12_Witness ==
    /\ ret = "end"
    /\ Len(returned) >= 2
    /\ AtUnterminatedComment(Len(returned))
    /\ returned[Len(returned)].length > Len(CommentOpen)

\* The chunk last returned is a tag that closes with "/>", the '/' not
\* being the one that opens a close tag.
SlashBeforeClose ==
    /\ ret = "chunk"
    /\ chunk_type \in {"OpenTag", "CloseTag"}
    /\ chunk_length >= 4
    /\ ByteAt(html_bytes, chunk_offset + chunk_length - 1) = CH.gt
    /\ ByteAt(html_bytes, chunk_offset + chunk_length - 2) = CH.slash
    /\ LET ne == NameEnd(html_bytes, chunk_offset + (IF closure THEN 2 ELSE 1))
       IN  /\ ScanAttrs(html_bytes, ne, 0).closed
           /\ chunk_offset + chunk_length - 2 >= ne

\* The buffer without the byte at position k.
WithoutByte(B, k) == SubSeq(B, 1, k) \o SubSeq(B, k + 2, Len(B))

\* The name of the tag at the chunk's offset, as written.
WrittenName ==
    SubSeq(html_bytes, chunk_offset + (IF closure THEN 2 ELSE 1) + 1,
           NameEnd(html_bytes, chunk_offset + (IF closure THEN 2 ELSE 1)))

\* C13: a tag written with '/' immediately before its closing '>' has the
\* self-closing marker set, the same tag written without the '/' has it not
\* set, and both have the same tag name, the written name in lower case.
C13_SelfClosingMarker ==
    SlashBeforeClose =>
        LET plain == parse_next(WithoutByte(html_bytes, chunk_offset + chunk_length - 2),
                                chunk_offset)
        IN  /\ end_closure
            /\ tag = to_lowercase(WrittenName)
            /\ plain.kind \in {"OpenTag", "CloseTag"}
            /\ ~plain.end_closure
            /\ plain.tag = tag

\* In the same buffers, a tag closed by '>' alone never has the marker set.
C13_PlainTagUnmarked ==
    (/\ ret = "chunk"
     /\ chunk_type \in {"OpenTag", "CloseTag"}
     /\ ByteAt(html_bytes, chunk_offset + chunk_length - 2) # CH.slash) => ~end_closure

\* A self-closed tag written in upper case with white space before "/>".
C13_Witness ==
    /\ SlashBeforeClose
    /\ end_closure
    /\ WrittenName # tag
    /\ IsWs(ByteAt(html_bytes, chunk_offset + chunk_length - 3))

(***************************************************************************)
(* The table filled with attribute names                                   *)
(***************************************************************************)

\* The number of tags registered with attribute lists of their own.
MaxAttrTags == 8

\* The number of attribute names a tag of the fill brings.
AttrsPerTag == 16

\* The k-th attribute name of the fill: two letters, the first different
\* for the AttrsPerTag names of one tag.
FillAttrName(k) == <<CH.a + (k % AttrsPerTag), CH.a + (k \div AttrsPerTag)>>

\* "xs", listed by every tag of the fill.
SharedAttrName == <<CH.x, 115>>

RECURSIVE JoinComma(_)
JoinComma(names) ==
    IF names = <<>> THEN <<>>
    ELSE IF Len(names) = 1 THEN names[1]
    ELSE names[1] \o <<CH.comma>> \o JoinComma(Tail(names))

\* The attribute lists of the t-th tag of the fill: its AttrsPerTag names
\* and "xs"; or one name fewer, in upper case and padded, with an empty
\* entry and a last name that shares the first letter of the first.
FillAttrLists(t) ==
    { JoinComma([j \in 1..AttrsPerTag |-> FillAttrName(AttrsPerTag * t + j - 1)]
                \o <<SharedAttrName>>),
      JoinComma([j \in 1..(AttrsPerTag - 1) |->
                    <<CH.sp>> \o to_uppercase(FillAttrName(AttrsPerTag * t + j - 1))]
                \o << <<>>, SharedAttrName,
                      FillAttrName(AttrsPerTag * t) \o <<CH.x>> >>) }

\* Registers the next tag of the fill with one of its attribute lists.
FillAttrs ==
    /\ NumTags < MaxAttrTags
    /\ \E attr_names \in FillAttrLists(NumTags) :
          AddTagCall(FillName(NumTags), attr_names)
    /\ steps' = steps + 1

NextAttrs == FillAttrs

SpecAttrs == InitHeuristics /\ [][NextAttrs]_vars

(***************************************************************************)
(* Claims on the attributes of a tag                                       *)
(***************************************************************************)

\* The names of a comma-separated list in lower case, trimmed, the empty
\* ones left out, in listed order.
RECURSIVE NonEmptyTrimmed(_)
NonEmptyTrimmed(names) ==
    IF names = <<>> THEN <<>>
    ELSE (IF trim(Head(names)) = <<>> THEN <<>> ELSE <<trim(Head(names))>>)
         \o NonEmptyTrimmed(Tail(names))

ListedAttrs(attr_names) == NonEmptyTrimmed(split(to_lowercase(attr_names), CH.comma))

\* The first listed name for each first letter.
FirstPerLetter(attr_names) ==
    LET l == ListedAttrs(attr_names)
    IN  {l[i] : i \in {i \in 1..Len(l) : \A j \in 1..(i - 1) : l[j][1] # l[i][1]}}

\* The last call registered a tag.
TagRegistered == op.name = "add_tag" /\ ret = "true"

\* The id of the tag the last call registered.
LastTagId == added_tags[TagOf(op.a)]

\* C14: for the tag a successful add_tag registered, each first listed
\* attribute per first letter resolves, through match_attr on its first
\* byte in lower and in upper case under either id of the tag and then
\* get_attr, to its lower-case name; match_attr is 0 on every other byte;
\* and the id stored is the one global id of the name.
C14_AttributesResolve ==
    TagRegistered =>
        \A tag_id \in {2 * LastTagId, 2 * LastTagId + 1} :
            /\ ~match_attr_panics(Table, 0, tag_id)
            /\ \A a \in FirstPerLetter(op.b) :
                  \A b \in {a[1], ToUpperCh(a[1])} :
                      /\ match_attr(Table, b, tag_id) # 0
                      /\ get_attr(Table, match_attr(Table, b, tag_id)) = a
                      /\ a \in DOMAIN added_attributes
                      /\ match_attr(Table, b, tag_id) \div 2 = added_attributes[a]
            /\ \A b \in 0..255 :
                  (\A a \in FirstPerLetter(op.b) : b \notin {a[1], ToUpperCh(a[1])})
                      => match_attr(Table, b, tag_id) = 0

\* C14 as long as fewer than 128 attribute names are held.
C14_AttributesResolveBelow128 ==
    Cardinality(DOMAIN added_attributes) < 128 => C14_AttributesResolve

\* C15: with up to 255 attribute names held, the id stored for an
\* attribute of global id k under its first letter is 2k in lower case and
\* 2k+1 in upper case, and two names of one tag never have the same
\* stored id.
C15_StoredIdsNotNarrowed ==
    (TagRegistered /\ Cardinality(DOMAIN added_attributes) <= 255) =>
        /\ \A a \in FirstPerLetter(op.b) :
              /\ a \in DOMAIN added_attributes
              /\ AttrDataAt(Table, LastTagId, a[1]) = 2 * added_attributes[a]
              /\ AttrDataAt(Table, LastTagId, ToUpperCh(a[1])) = 2 * added_attributes[a] + 1
        /\ \A a1, a2 \in FirstPerLetter(op.b) :
              a1 # a2 => AttrDataAt(Table, LastTagId, a1[1]) \div 2
                             # AttrDataAt(Table, LastTagId, a2[1]) \div 2

(***************************************************************************)
(* The flush round trip of the string assembler                            *)
(***************************************************************************)

\* The last call was a flush: set_to_string or set_to_string_ascii.
IsFlush == op.name \in {"set_to_string", "set_to_string_ascii"}

\* A run that began with clear and has appended only characters of value
\* at most 127 since.
AsciiRun ==
    /\ appended.cleared
    /\ \A i \in 1..Len(appended.chars) : appended.chars[i] <= 127

\* What C16 says of a flush and of clear, whatever the run.
FlushAndClearLeave ==
    /\ IsFlush => (buffer_pos = 0 /\ out = text)
    /\ op.name = "clear" => (text = <<>> /\ buffer_pos = 0)

\* C16: after clear, any sequence of appends of characters <= 127,
\* interleaved with any number of flushes, is taken in full, and a flush
\* returns exactly the appended characters in append order; every flush
\* leaves the scratch cursor at 0 and returns the owned string, and clear
\* leaves the owned string and the scratch cursor empty.
C16_FlushRoundTrip ==
    /\ AsciiRun => ret # "panic"
    /\ (AsciiRun /\ IsFlush) => out = appended.chars
    /\ FlushAndClearLeave

\* C16, for the runs whose appends all fit the scratch buffer: the round
\* trip holds.
C16_FlushRoundTripWithinCapacity ==
    /\ (AsciiRun /\ IsFlush) => out = appended.chars
    /\ FlushAndClearLeave

\* C16, the flush of an empty scratch buffer: the owned string is returned
\* unchanged.
C16_EmptyFlushKeepsText ==
    [][(steps' = steps + 1 /\ IsFlush' /\ buffer_pos = 0)
          => (text' = text /\ out' = text)]_vars

\* The bytes the last append wrote: the last n bytes of the scratch buffer.
LastWritten(n) ==
    IF n <= buffer_pos THEN SubSeq(buffer, buffer_pos - n + 1, buffer_pos)
    ELSE <<-1>>

\* C17: an append that returns has written the raw byte of a character of
\* code point at most 127, and the codec's bytes of every character above
\* 127, never the low byte of its code point.
C17_RawByteOnlyUpTo127 ==
    (op.name = "append" /\ ret = "ok") =>
        LET ch == op.a[1]
        IN  IF ch <= 127 THEN LastWritten(1) = <<ch>>
            ELSE LastWritten(Len(Encode(enc, ch))) = Encode(enc, ch)

\* C17, for the characters whose low 8 bits tell the range right: those up
\* to 127 and those whose low byte is above 127.
C17_RawByteWhenLowByteTells ==
    (op.name = "append" /\ ret = "ok" /\ (op.a[1] <= 127 \/ op.a[1] % 256 > 127)) =>
        LET ch == op.a[1]
        IN  IF ch <= 127 THEN LastWritten(1) = <<ch>>
            ELSE LastWritten(Len(Encode(enc, ch))) = Encode(enc, ch)

(***************************************************************************)
(* The two-character string cache                                          *)
(***************************************************************************)

\* The number of strings of ALL_TWO_CHARS: the two loops run over 0u8..255,
\* which leaves 255 out.
TwoCharsLen == 255 * 255

\* ALL_TWO_CHARS[k], for k in 0..TwoCharsLen-1: the strings are pushed row
\* by row, 255 to a row.
ALL_TWO_CHARS(k) == <<k \div 255, k % 255>>

\* -> [ret, out]: indexing the Vec at TwoCharsLen or beyond is out of bounds
get_two_char_string(i, j) ==
    LET k == i * 256 + j
    IN  IF k >= TwoCharsLen THEN [ret |-> "panic", out |-> <<>>]
        ELSE [ret |-> "ok", out |-> ALL_TWO_CHARS(k)]

\* One lookup, of any byte pair.
GetTwoCharString ==
    /\ steps = 0
    /\ \E i \in 0..255, j \in 0..255 :
          LET r == get_two_char_string(i, j)
          IN  /\ ret' = r.ret
              /\ out' = r.out
              /\ op' = [name |-> "get_two_char_string", a |-> <<i>>, b |-> <<j>>]
    /\ steps' = steps + 1
    /\ UNCHANGED <<heurVars, strVars, chunkVars, parserVars>>

NextTwoChars == GetTwoCharString

SpecTwoChars == InitHeuristics /\ [][NextTwoChars]_vars

\* C18: get_two_char_string(i, j) returns, for every byte pair, the string
\* of byte i followed by byte j, and its index is inside the table.
C18_TwoCharString ==
    op.name = "get_two_char_string" =>
        (ret = "ok" /\ out = <<op.a[1], op.b[1]>>)

\* C18, for the pairs of the first row of the table but its last: i = 0
\* and j < 255.
C18_TwoCharStringFirstRow ==
    (op.name = "get_two_char_string" /\ op.a[1] = 0 /\ op.b[1] < 255) =>
        (ret = "ok" /\ out = <<op.a[1], op.b[1]>>)

(***************************************************************************)
(* Registrations that fail                                                 *)
(***************************************************************************)

\* C20: an add_tag call that returns failure leaves the table unchanged:
\* the rejected name is not recorded, no id is consumed, and the count of
\* the capacity check is what it was.
C20_FailureLeavesTableUnchanged ==
    [][(steps' = steps + 1 /\ op'.name = "add_tag" /\ ret' = "false")
          => UNCHANGED heurVars]_vars

\* C20, for the calls rejected before any write: an empty or over-long
\* name, a name already recorded, a full table.
C20_EarlyRejectionLeavesTableUnchanged ==
    [][(steps' = steps + 1 /\ op'.name = "add_tag" /\ ret' = "false"
          /\ (ByteLen(TagOf(op'.a)) = 0 \/ ByteLen(TagOf(op'.a)) > 32
                \/ AlreadyAdded(Table, TagOf(op'.a)) \/ TableFull(Table)))
          => UNCHANGED heurVars]_vars

(***************************************************************************)
(* The construction of a parser                                            *)
(***************************************************************************)

\* The registrations of init_heuristics, in the order of the calls.
SeededTags ==
    <<
       [tag |-> <<97>>, attrs |-> <<104, 114, 101, 102>>],
          \* "a", "href"
       [tag |-> <<98>>, attrs |-> <<>>],
          \* "b", ""
       [tag |-> <<112>>, attrs |-> <<99, 108, 97, 115, 115>>],
          \* "p", "class"
       [tag |-> <<105>>, attrs |-> <<>>],
          \* "i", ""
       [tag |-> <<115>>, attrs |-> <<>>],
          \* "s", ""
       [tag |-> <<117>>, attrs |-> <<>>],
          \* "u", ""
       [tag |-> <<116, 100>>, attrs |-> <<97, 108, 105, 103, 110, 44, 118, 97, 108, 105, 103, 110, 44, 98, 103, 99, 111, 108, 111, 114, 44, 114, 111, 119, 115, 112, 97, 110, 44, 99, 111, 108, 115, 112, 97, 110>>],
          \* "td", "align,valign,bgcolor,rowspan,colspan"
       [tag |-> <<116, 97, 98, 108, 101>>, attrs |-> <<98, 111, 114, 100, 101, 114, 44, 119, 105, 100, 116, 104, 44, 99, 101, 108, 108, 112, 97, 100, 100, 105, 110, 103>>],
          \* "table", "border,width,cellpadding"
       [tag |-> <<115, 112, 97, 110>>, attrs |-> <<>>],
          \* "span", ""
       [tag |-> <<111, 112, 116, 105, 111, 110>>, attrs |-> <<>>],
          \* "option", ""
       [tag |-> <<115, 101, 108, 101, 99, 116>>, attrs |-> <<>>],
          \* "select", ""
       [tag |-> <<116, 114>>, attrs |-> <<>>],
          \* "tr", ""
       [tag |-> <<100, 105, 118>>, attrs |-> <<99, 108, 97, 115, 115, 44, 97, 108, 105, 103, 110>>],
          \* "div", "class,align"
       [tag |-> <<105, 109, 103>>, attrs |-> <<115, 114, 99, 44, 119, 105, 100, 116, 104, 44, 104, 101, 105, 103, 104, 116, 44, 116, 105, 116, 108, 101, 44, 97, 108, 116>>],
          \* "img", "src,width,height,title,alt"
       [tag |-> <<105, 110, 112, 117, 116>>, attrs |-> <<>>],
          \* "input", ""
       [tag |-> <<98, 114>>, attrs |-> <<>>],
          \* "br", ""
       [tag |-> <<108, 105>>, attrs |-> <<>>],
          \* "li", ""
       [tag |-> <<117, 108>>, attrs |-> <<>>],
          \* "ul", ""
       [tag |-> <<111, 108>>, attrs |-> <<>>],
          \* "ol", ""
       [tag |-> <<104, 114>>, attrs |-> <<>>],
          \* "hr", ""
       [tag |-> <<104, 49>>, attrs |-> <<>>],
          \* "h1", ""
       [tag |-> <<104, 50>>, attrs |-> <<>>],
          \* "h2", ""
       [tag |-> <<104, 51>>, attrs |-> <<>>],
          \* "h3", ""
       [tag |-> <<104, 52>>, attrs |-> <<>>],
          \* "h4", ""
       [tag |-> <<104, 53>>, attrs |-> <<>>],
          \* "h5", ""
       [tag |-> <<104, 54>>, attrs |-> <<>>],
          \* "h6", ""
       [tag |-> <<102, 111, 110, 116>>, attrs |-> <<115, 105, 122, 101, 44, 99, 111, 108, 111, 114>>],
          \* "font", "size,color"
       [tag |-> <<109, 101, 116, 97>>, attrs |-> <<110, 97, 109, 101, 44, 99, 111, 110, 116, 101, 110, 116, 44, 104, 116, 116, 112, 45, 101, 113, 117, 105, 118>>],
          \* "meta", "name,content,http-equiv"
       [tag |-> <<98, 97, 115, 101>>, attrs |-> <<104, 114, 101, 102>>],
          \* "base", "href"
       [tag |-> <<115, 99, 114, 105, 112, 116>>, attrs |-> <<>>],
          \* "script", ""
       [tag |-> <<115, 116, 121, 108, 101>>, attrs |-> <<>>],
          \* "style", ""
       [tag |-> <<104, 116, 109, 108>>, attrs |-> <<>>],
          \* "html", ""
       [tag |-> <<98, 111, 100, 121>>, attrs |-> <<>>] 
          \* "body", ""
    >>

\* The calls of init_heuristics from the k-th on.  The value add_tag
\* returns is dropped; a panic ends the sequence.  -> [table, ret]
RECURSIVE SeedFrom(_, _)
SeedFrom(T, k) ==
    IF k > Len(SeededTags) THEN [table |-> T, ret |-> "ok"]
    ELSE LET r == add_tag(T, SeededTags[k].tag, SeededTags[k].attrs)
         IN  IF r.ret = "panic" THEN [table |-> r.table, ret |-> "panic"]
             ELSE SeedFrom(r.table, k + 1)

init_heuristics(T) == SeedFrom(T, 1)

\* init_whitespaces(mut whitespace: [bool; 256]) takes the array by value,
\* and an array of bool is Copy: its four writes go to the callee's copy,
\* which is dropped at the return, and the caller's array is what it was.
\* A table is the set of the bytes flagged true.  -> [callee, caller]
init_whitespaces(whitespace) ==
    [callee |-> whitespace \cup {9, 10, 13, 32}, caller |-> whitespace]

\* HtmlParser::new: the locals, the two initialisations, then the struct.
\* -> [parser, ret]
HtmlParser_new ==
    LET whitespace == init_whitespaces({}).caller
        h == init_heuristics(NewTable)
    IN  IF h.ret = "panic" THEN [parser |-> [some |-> FALSE], ret |-> "panic"]
        ELSE [ret |-> "ok",
              parser |->
                [some |-> TRUE,
                 decode_mini_entities |-> FALSE,
                 keep_raw_html |-> FALSE,
                 keep_comments |-> TRUE,
                 keep_scripts |-> TRUE,
                 extract_between_tags_only |-> TRUE,
                 mark_closed_tags_with_params_as_open |->
                     mark_closed_tags_with_params_as_open,
                 compress_whitespace_before_tag |-> TRUE,
                 heuristics |-> h.table,
                 encoding |-> "utf8",
                 html_bytes |-> [some |-> FALSE],
                 current_position |-> 0,
                 data_length |-> 0,
                 whitespace |-> whitespace]]

\* One call of HtmlParser::new.  A panic ends the run.
HtmlParserNew ==
    /\ ret # "panic"
    /\ ~constructed.some
    /\ LET r == HtmlParser_new
       IN  /\ constructed' = r.parser
           /\ ret' = r.ret
    /\ op' = [name |-> "HtmlParser::new", a |-> <<>>, b |-> <<>>]
    /\ steps' = steps + 1
    /\ UNCHANGED <<heurVars, strVars, chunkVars,
                   html_bytes, current_position, data_length, returned, out>>

\* A program that registers names in a table of its own and constructs a
\* parser.
NextConstruct == AddTag \/ HtmlParserNew

SpecConstruct == InitHeuristics /\ [][NextConstruct]_vars

\* C19: a call of HtmlParser::new returns a parser with
\* decode_mini_entities off, keep_raw_html off, keep_comments on,
\* keep_scripts on, extract_between_tags_only on,
\* mark_closed_tags_with_params_as_open on and
\* compress_whitespace_before_tag on, with no buffer assigned, cursor 0 and
\* data length 0.
C19_ConstructedDefaults ==
    op.name = "HtmlParser::new" =>
        /\ ret = "ok"
        /\ constructed.some
        /\ ~constructed.decode_mini_entities
        /\ ~constructed.keep_raw_html
        /\ constructed.keep_comments
        /\ constructed.keep_scripts
        /\ constructed.extract_between_tags_only
        /\ constructed.mark_closed_tags_with_params_as_open
        /\ constructed.compress_whitespace_before_tag
        /\ ~constructed.html_bytes.some
        /\ constructed.current_position = 0
        /\ constructed.data_length = 0

(***************************************************************************)
(* One-byte names and the seeded table                                     *)
(***************************************************************************)

\* The bytes that may follow a one-byte tag name.
Terminators == {CH.sp, CH.tab, CH.cr, CH.lf, CH.gt}

\* The call registers a new name of one byte: none of the early returns of
\* add_tag is taken.
RegistersOneByteName ==
    /\ op.name = "add_tag"
    /\ Len(TagOf(op.a)) = 1
    /\ ret # "false"

\* C21: registering a one-byte name completes without fault, and for a
\* registered one-byte name c of data ids d and d+1, match_tag(c, x) is -d
\* and match_tag(upper(c), x) is -(d+1) for every terminator x; a negative
\* id is never stored for a name of two or more bytes, and id 0 is never
\* assigned to a registered name.
C21_OneByteNames ==
    /\ RegistersOneByteName => ret = "true"
    /\ \A t \in DOMAIN added_tags :
          (Registered(Table, t) /\ Len(t) = 1) =>
              \A x \in Terminators :
                  /\ match_tag(Table, t[1], x) = -1 * (2 * added_tags[t])
                  /\ match_tag(Table, ToUpperCh(t[1]), x) = -1 * (2 * added_tags[t] + 1)
    /\ \A k \in DOMAIN chars :
          chars[k] < 0 => Len(get_string_data(Table, -1 * chars[k])) = 1
    /\ \A t \in DOMAIN added_tags : added_tags[t] # 0

\* C21, its last part: an id assigned to a name is at least 1, and an entry
\* of the byte-pair table set for a name of two or more bytes is positive.
C21_IdsOfLongNamesPositive ==
    /\ \A t \in DOMAIN added_tags : added_tags[t] >= 1
    /\ \A t \in DOMAIN added_tags :
          (Registered(Table, t) /\ Len(t) >= 4) => CharsAt(Table, t[2], t[4]) > 0

\* The seeded name t resolves in the table H, in the form f (lower or upper
\* case): match_tag on its first two bytes, or for a one-byte name on its
\* byte and a terminator, gives an id whose string is t.
ResolvesIn(H, t, f) ==
    IF Len(t) = 1
    THEN \A x \in Terminators :
            /\ match_tag(H, f[1], x) < 0
            /\ get_string_by_id(H, -1 * match_tag(H, f[1], x)) = t
    ELSE /\ match_tag(H, f[1], f[2]) > 0
         /\ get_string_by_id(H, match_tag(H, f[1], f[2])) = t

\* C22: every one of the 33 seeded registrations succeeds, so that a call
\* of HtmlParser::new returns a parser in whose table each seeded name
\* resolves through match_tag and get_string_by_id, in lower case and in
\* upper case.
C22_SeededNamesResolve ==
    op.name = "HtmlParser::new" =>
        /\ ret = "ok"
        /\ constructed.some
        /\ \A k \in 1..Len(SeededTags) :
              LET t == SeededTags[k].tag
              IN  /\ Registered(constructed.heuristics, t)
                  /\ ResolvesIn(constructed.heuristics, t, t)
                  /\ ResolvesIn(constructed.heuristics, t, to_uppercase(t))

\* The entries of the byte-pair table the claim gives the name t, in lower
\* and in upper case: its first two bytes, or its byte and each terminator.
ClaimedPairs(t) ==
    LET u == to_uppercase(t)
    IN  IF Len(t) = 1
        THEN {<<t[1], x>> : x \in Terminators} \cup {<<u[1], x>> : x \in Terminators}
        ELSE {<<t[1], t[2]>>, <<u[1], u[2]>>}

\* C22, the part that is a fact of the list: no two seeded names claim the
\* same entry of the byte-pair table.
C22_SeededPairsDistinct ==
    \A i, j \in 1..Len(SeededTags) :
        i # j => ClaimedPairs(SeededTags[i].tag) \cap ClaimedPairs(SeededTags[j].tag) = {}

\* C23: after a call of HtmlParser::new, the whitespace table of the parser
\* is true for exactly the bytes 9, 10, 13 and 0x20: the flags
\* init_whitespaces sets are in the table the caller holds.
C23_WhitespaceTable ==
    op.name = "HtmlParser::new" =>
        /\ init_whitespaces({}).caller = {9, 10, 13, 32}
        /\ constructed.some
        /\ constructed.whitespace = {9, 10, 13, 32}

(***************************************************************************)
(* The two attribute stores of a chunk                                     *)
(***************************************************************************)

\* What C24 says a cleared chunk holds.
Cleared ==
    /\ params_count = 0
    /\ params.some => DOMAIN params.map = {}
    /\ tag = <<>>
    /\ html = <<>>
    /\ ~closure
    /\ ~end_closure
    /\ ~entities
    /\ ~lt_entity

\* C24: after clear() the ordered attribute count is 0, the mapping,
\* whenever one exists (one made by convert_params_to_hash on a chunk not in
\* mapping mode included), is empty, the tag name and the text are empty and
\* the closing, self-closing, entity and escaped-tag-start flags are false.
C24_ClearLeavesNoAttributes ==
    op.name = "clear" => Cleared

\* C24, for a chunk in mapping mode and for a chunk that holds no mapping.
C24_ClearInOwnMode ==
    (op.name = "clear" /\ (hash_mode \/ ~params.some)) => Cleared

\* The values of the attributes named `name`: of the mapping in mapping
\* mode, of the first params_count ordered attributes otherwise.
NamedValues(name) ==
    IF hash_mode
    THEN IF params.some /\ name \in DOMAIN params.map THEN {params.map[name]} ELSE {}
    ELSE {param_values[i] : i \in {j \in 1..params_count : param_names[j] = name}}

\* The ordered names are distinct.
DistinctNames ==
    \A i, j \in 1..params_count : param_names[i] = param_names[j] => i = j

\* The chunk in mapping mode that holds the (name, value) pairs of this
\* ordered chunk.
MappingTwin ==
    [Chunk EXCEPT !.hash_mode = TRUE,
                  !.params = [some |-> TRUE,
                              map |-> [n \in {param_names[i] : i \in 1..params_count} |->
                                         CHOOSE v \in NamedValues(n) : TRUE]]]

\* C25: get_param_value(name) returns the value of the attribute named
\* name, and the empty string when the chunk has none; and an ordered chunk
\* of distinct names answers as the mapping-mode chunk of the same pairs.
C25_GetParamValue ==
    /\ op.name = "get_param_value" =>
          IF NamedValues(op.a) = {} THEN out = <<>> ELSE out \in NamedValues(op.a)
    /\ (op.name = "get_param_value" /\ ~hash_mode /\ DistinctNames) =>
          out = get_param_value(MappingTwin, op.a)

\* C25, in mapping mode.
C25_GetParamValueOfMapping ==
    (op.name = "get_param_value" /\ hash_mode) =>
        IF NamedValues(op.a) = {} THEN out = <<>> ELSE out \in NamedValues(op.a)

\* The index of the last ordered attribute named k.
LastNamed(k) ==
    CHOOSE i \in 1..params_count :
        /\ param_names[i] = k
        /\ \A j \in (i + 1)..params_count : param_names[j] # k

\* What C26 says of a step of convert_params_to_hash that returns.
ConvertedFromOrdered ==
    /\ params'.some
    /\ DOMAIN params'.map = {param_names[i] : i \in 1..params_count}
    /\ \A k \in DOMAIN params'.map : params'.map[k] = param_values[LastNamed(k)]
    /\ UNCHANGED <<param_names, param_values, param_chars, params_count>>
    /\ op.name = "convert_params_to_hash" => params' = params

ConvertStep == steps' = steps + 1 /\ op'.name = "convert_params_to_hash"

\* C26: convert_params_to_hash returns with a mapping whose keys are the
\* names of the first params_count ordered attributes, each with the value
\* of its last occurrence, whatever the mapping held before; the ordered
\* names, values, quote characters and count are unchanged, and a second
\* call in a row leaves the mapping of the first.
C26_ConvertParamsToHash ==
    [][ConvertStep => (ret' = "ok" /\ ConvertedFromOrdered)]_vars

\* C26, for a chunk whose ordered list holds its params_count attributes.
C26_ConvertOfOrderedList ==
    [][(ConvertStep /\ params_count <= Len(param_names)
                    /\ params_count <= Len(param_values))
          => (ret' = "ok" /\ ConvertedFromOrdered)]_vars

=============================================================================
